---- MODULE Spec2Model ----
(***************************************************************************)
(* Model of the decision engine (src/stock_analyzer.py), the circuit       *)
(* breaker (src/utils/circuit_breaker.py), the fetch manager               *)
(* (src/data_provider/base.py), the retry helper                           *)
(* (src/utils/retry_helper.py), the cache manager                          *)
(* (src/utils/cache_manager.py), the daily-bar store (src/storage.py),     *)
(* the notification service (src/notification/service.py), the singleton   *)
(* accessors, the fetcher pipeline (src/data_provider/base.py) and the     *)
(* stock code validator (src/validators.py).                               *)
(* Each component has its own specification; the variables of the other    *)
(* components stay at their initial values.  The specifications of         *)
(* concurrent callers (breaker, cache, store) run several threads on the   *)
(* variables of the component they call.                                   *)
(*                                                                         *)
(* Numbers.  Prices, ATR, RSI, MACD and pct_chg are integers; volume_ratio *)
(* is in tenths (7 stands for 0.7).  A quotient the code computes in       *)
(* floating point (bias_ma5, atr_pct) is kept as an exact fraction         *)
(* [n, d] with d > 0 and compared by cross-multiplication.                 *)
(*                                                                         *)
(* Text.  A Python string is a sequence of characters; a non-ASCII         *)
(* character is written as "U" followed by its code point, so the          *)
(* substring tests of the sentiment filter are computed character by       *)
(* character on the keywords of the source.                                *)
(***************************************************************************)
EXTENDS Integers, Sequences, FiniteSets, TLC

VARIABLES
    inp,                \* analyze: the arguments (df, code, news_context)
    res,                \* analyze: <<>>, then <<the TrendAnalysisResult returned>>
    failure_threshold,  \* CircuitBreaker: constructor arguments
    timeout,
    half_open_max_calls,
    state,              \* CircuitBreaker.state
    failure_count,
    success_count,
    last_failure_time,  \* NoTime stands for None
    last_success_time,
    half_open_calls,
    now,                \* time.time()
    pc,                 \* position of the caller inside CircuitBreaker.call
    outcome,            \* how the last finished call ended
    invocations,        \* number of times the protected function was entered
    calls,              \* number of calls of CircuitBreaker.call so far
    only_failures,      \* every call finished so far ended in a failure
    episode_successes,  \* calls that succeeded since HALF_OPEN was last entered
    fetchers,           \* DataFetcherManager.fetchers
    breaker_state,      \* state of the circuit breaker kept for each fetcher
    mgr_pc,             \* position inside DataFetcherManager.get_daily_data
    mgr_idx,            \* index of the fetcher the loop is at
    last_error,         \* local last_error of get_daily_data
    tried,              \* fetchers invoked by the current call, with what they did
    mgr_result,         \* how the last call of get_daily_data ended
    max_attempts,       \* RetryHelper: constructor arguments
    retry_exceptions,
    on_retry,
    func_plan,          \* what the function does on its 1st, 2nd, ... invocation
    attempt,            \* loop variable of RetryHelper.run
    retry_pc,           \* position inside RetryHelper.run
    func_invocations,   \* number of invocations of the function
    sleeps,             \* number of time.sleep calls that returned
    on_retry_calls,     \* number of invocations of the on_retry callback
    last_exception,     \* local last_exception of run
    run_result,         \* how run ended
    default_ttl,        \* CacheManager: constructor arguments
    max_cache_size,
    _memory_cache,      \* CacheManager._memory_cache
    _stats,             \* CacheManager._stats
    cache_files,        \* the *.cache files of cache_dir
    cache_now,          \* time.time() as the cache manager reads it
    cache_ops,          \* number of cache operations made so far
    last_op,            \* the last cache operation
    get_return,         \* what the last get returned
    written,            \* per key, what the last set wrote, until delete or clear
    stock_daily,        \* the committed rows of table stock_daily, in id order
    identity_map,       \* the session's view of the rows it has loaded
    session_new,        \* the session's pending records (added, not flushed)
    save_df,            \* save_daily_data: argument df
    save_code,          \* save_daily_data: argument code
    save_source,        \* save_daily_data: argument data_source
    save_idx,           \* position of df.iterrows(); 0 outside a call
    saved_count,        \* save_daily_data: local saved_count
    save_result,        \* how the last call of save_daily_data ended
    save_calls,         \* number of calls of save_daily_data so far
    row_outcomes,       \* per row of the call, "saved" or "failed"
    rows_at_entry,      \* stock_daily when the call began
    same_series,        \* the call has the code and the dates of the one before
    context_args,       \* get_analysis_context: arguments (code, days)
    context,            \* what the last get_analysis_context returned
    _available_channels,\* NotificationService._available_channels
    _feishu_max_bytes,  \* NotificationService._feishu_max_bytes
    _wechat_max_bytes,  \* NotificationService._wechat_max_bytes
    notify_pc,          \* position of the thread in send_daily_report
    report_content,     \* send_daily_report: local report_content
    format_calls,       \* calls of generate_daily_report in this send
    futures,            \* per submitted channel, the state of its future
    send_calls,         \* per channel, invocations of its send in this send
    handed,             \* per channel, the content its send was called with
    transmitted,        \* per channel, the text its send posted
    post_status,        \* per channel, how its requests.post ended
    collected,          \* the futures as_completed has yielded so far
    success,            \* send_daily_report: local success
    send_return,        \* how the last send_daily_report ended
    thread_pc,          \* per thread, its position in CircuitBreaker.call
    thread_reg,         \* per thread, the value it read for a += 1
    thread_outcome,     \* per thread, how its call ended
    cthread_pc,         \* per thread, its position in a CacheManager method
    cthread_op,         \* per thread, the call it is in
    cthread_log,        \* per thread, the calls it has ended, with results
    worker_pc,          \* per worker, its position in save_daily_data
    worker_args,        \* per worker, the arguments of its call
    worker_existing,    \* per worker, what its select returned
    worker_new,         \* per worker, the pending records of its session
    worker_result,      \* per worker, how its call ended
    _instance,          \* per accessor, the module global or class attribute
    objects,            \* the instances constructed so far
    sthread_pc,         \* per thread, its position in the accessor
    sthread_call,       \* per thread, the accessor it calls
    sthread_self,       \* per thread, the instance __new__ handed it
    sthread_result,     \* per thread, the instance returned and its state
    bf_pc,              \* BaseFetcher.get_daily_data: the step that runs next
    bf_source,          \* what the data source does in this call
    bf_df,              \* get_daily_data: local raw_df, then df
    bf_steps,           \* the steps of the call that have run, in order
    bf_result,          \* how the last call of get_daily_data ended
    bf_calls,           \* number of calls of get_daily_data so far
    vcode,              \* the argument of StockCodeValidator.validate
    vreturn,            \* what validate(vcode) returned or raised
    vagain              \* what validate of the returned code returned or raised

analyzerVars == <<inp, res>>
breakerVars == <<failure_threshold, timeout, half_open_max_calls, state,
                 failure_count, success_count, last_failure_time,
                 last_success_time, half_open_calls, now, pc, outcome,
                 invocations, calls, only_failures,
          episode_successes>>
fetchVars == <<fetchers, breaker_state, mgr_pc, mgr_idx, last_error, tried,
               mgr_result>>
retryVars == <<max_attempts, retry_exceptions, on_retry, func_plan, attempt,
               retry_pc, func_invocations, sleeps, on_retry_calls,
               last_exception, run_result>>
cacheVars == <<default_ttl, max_cache_size, _memory_cache, _stats, cache_files,
               cache_now, cache_ops, last_op, get_return, written>>
storageVars == <<stock_daily, identity_map, session_new, save_df, save_code,
                 save_source, save_idx, saved_count, save_result, save_calls,
                 row_outcomes, rows_at_entry, same_series>>
contextVars == <<context_args, context>>
notifyVars == <<_available_channels, _feishu_max_bytes, _wechat_max_bytes,
                notify_pc, report_content, format_calls, futures, send_calls,
                handed, transmitted, post_status, collected, success,
                send_return>>
breakerThreadVars == <<thread_pc, thread_reg, thread_outcome>>
cacheThreadVars == <<cthread_pc, cthread_op, cthread_log>>
workerVars == <<worker_pc, worker_args, worker_existing, worker_new, worker_result>>
singletonVars == <<_instance, objects, sthread_pc, sthread_call, sthread_self,
                   sthread_result>>
baseFetcherVars == <<bf_pc, bf_source, bf_df, bf_steps, bf_result, bf_calls>>
validatorVars == <<vcode, vreturn, vagain>>
laterVars == <<
    fetchVars, retryVars, cacheVars, storageVars, contextVars, notifyVars,
    breakerThreadVars, cacheThreadVars, workerVars, singletonVars,
    baseFetcherVars, validatorVars>>
nonFetchVars == <<
    analyzerVars, breakerVars, retryVars, cacheVars, storageVars,
    contextVars, notifyVars, breakerThreadVars, cacheThreadVars,
    workerVars, singletonVars, baseFetcherVars, validatorVars>>
nonRetryVars == <<
    analyzerVars, breakerVars, fetchVars, cacheVars, storageVars,
    contextVars, notifyVars, breakerThreadVars, cacheThreadVars,
    workerVars, singletonVars, baseFetcherVars, validatorVars>>
nonCacheVars == <<
    analyzerVars, breakerVars, fetchVars, retryVars, storageVars,
    contextVars, notifyVars, breakerThreadVars, cacheThreadVars,
    workerVars, singletonVars, baseFetcherVars, validatorVars>>
nonStorageVars == <<
    analyzerVars, breakerVars, fetchVars, retryVars, cacheVars,
    contextVars, notifyVars, breakerThreadVars, cacheThreadVars,
    workerVars, singletonVars, baseFetcherVars, validatorVars>>
nonContextVars == <<
    analyzerVars, breakerVars, fetchVars, retryVars, cacheVars,
    storageVars, notifyVars, breakerThreadVars, cacheThreadVars,
    workerVars, singletonVars, baseFetcherVars, validatorVars>>
nonNotifyVars == <<
    analyzerVars, breakerVars, fetchVars, retryVars, cacheVars,
    storageVars, contextVars, breakerThreadVars, cacheThreadVars,
    workerVars, singletonVars, baseFetcherVars, validatorVars>>
nonBreakerThreadVars == <<
    analyzerVars, fetchVars, retryVars, cacheVars, storageVars,
    contextVars, notifyVars, cacheThreadVars, workerVars, singletonVars,
    baseFetcherVars, validatorVars>>
nonCacheThreadVars == <<
    analyzerVars, breakerVars, fetchVars, retryVars, storageVars,
    contextVars, notifyVars, breakerThreadVars, workerVars, singletonVars,
    baseFetcherVars, validatorVars>>
nonWorkerVars == <<
    analyzerVars, breakerVars, fetchVars, retryVars, cacheVars,
    contextVars, notifyVars, breakerThreadVars, cacheThreadVars,
    singletonVars, baseFetcherVars, validatorVars>>
nonSingletonVars == <<
    analyzerVars, breakerVars, fetchVars, retryVars, cacheVars,
    storageVars, contextVars, notifyVars, breakerThreadVars,
    cacheThreadVars, workerVars, baseFetcherVars, validatorVars>>
nonBaseFetcherVars == <<
    analyzerVars, breakerVars, fetchVars, retryVars, cacheVars,
    storageVars, contextVars, notifyVars, breakerThreadVars,
    cacheThreadVars, workerVars, singletonVars, validatorVars>>
nonValidatorVars == <<
    analyzerVars, breakerVars, fetchVars, retryVars, cacheVars,
    storageVars, contextVars, notifyVars, breakerThreadVars,
    cacheThreadVars, workerVars, singletonVars, baseFetcherVars>>
vars == <<analyzerVars, breakerVars, laterVars>>

(***************************************************************************)
(*                     Values shared by the components                     *)
(***************************************************************************)

\* Python's None and a Python str, both as tuples, so that None and the
\* empty string are different values of one kind.
None == <<"None">>

Str(s) == <<"str", s>>

\* An exception object of class e.
Exc(e) == <<"Exception", e>>

FetcherNames == {"EfinanceFetcher", "AkshareFetcher", "TushareFetcher"}

\* A manager without fetchers, never called.
FetchIdle ==
    /\ fetchers = <<>>
    /\ breaker_state = [n \in FetcherNames |-> "CLOSED"]
    /\ mgr_pc = "idle"
    /\ mgr_idx = 0
    /\ last_error = None
    /\ tried = <<>>
    /\ mgr_result = <<"none">>

\* RetryHelper() with the default arguments, never run.
RetryIdle ==
    /\ max_attempts = 3
    /\ retry_exceptions = None
    /\ on_retry = None
    /\ func_plan = <<>>
    /\ attempt = 0
    /\ retry_pc = "idle"
    /\ func_invocations = 0
    /\ sleeps = 0
    /\ on_retry_calls = 0
    /\ last_exception = None
    /\ run_result = <<"none">>

\* A cache entry that is not there (a key not in the dict, a file that
\* does not exist).
Absent == <<"absent">>

\* The keys used with the cache manager.
Keys == {"a", "b"}

\* hashlib.md5(key.encode()).hexdigest()
md5(key) ==
    CASE key = "a" -> "0cc175b9c0f1b6a831c399e269772661"
      [] key = "b" -> "92eb5ffee6ae2fec3ad71c777531578f"

\* CacheManager._get_cache_file, relative to cache_dir
_get_cache_file(key) == <<md5(key), ".cache">>

FileNames == {_get_cache_file(k) : k \in Keys}

\* CacheManager() with the default arguments on an empty directory, never
\* used.
CacheIdle ==
    /\ default_ttl = 3600
    /\ max_cache_size = 100 * 1024 * 1024
    /\ _memory_cache = [k \in Keys |-> Absent]
    /\ _stats = [hits |-> 0, misses |-> 0, sets |-> 0, deletes |-> 0]
    /\ cache_files = [f \in FileNames |-> Absent]
    /\ cache_now = 0
    /\ cache_ops = 0
    /\ last_op = <<"none">>
    /\ get_return = None
    /\ written = [k \in Keys |-> Absent]

\* DatabaseManager() on a new database, save_daily_data never called.
StorageIdle ==
    /\ stock_daily = <<>>
    /\ identity_map = <<>>
    /\ session_new = <<>>
    /\ save_df = <<>>
    /\ save_code = ""
    /\ save_source = ""
    /\ save_idx = 0
    /\ saved_count = 0
    /\ save_result = <<"none">>
    /\ save_calls = 0
    /\ row_outcomes = <<>>
    /\ rows_at_entry = <<>>
    /\ same_series = FALSE

\* get_analysis_context never called.
ContextIdle ==
    /\ context_args = <<>>
    /\ context = <<"none">>

\* NotificationChannel, without UNKNOWN, in the order of
\* _detect_all_channels
ChannelOrder == <<"wechat", "feishu", "telegram", "email", "pushover", "custom">>

AllChannels == {ChannelOrder[i] : i \in 1..Len(ChannelOrder)}

\* NotificationService() with no channel configured, never used.
NotifyIdle ==
    /\ _available_channels = <<>>
    /\ _feishu_max_bytes = 20000
    /\ _wechat_max_bytes = 4000
    /\ notify_pc = "idle"
    /\ report_content = <<>>
    /\ format_calls = 0
    /\ futures = [ch \in AllChannels |-> <<"none">>]
    /\ send_calls = [ch \in AllChannels |-> 0]
    /\ handed = [ch \in AllChannels |-> Absent]
    /\ transmitted = [ch \in AllChannels |-> Absent]
    /\ post_status = [ch \in AllChannels |-> "none"]
    /\ collected = {}
    /\ success = TRUE
    /\ send_return = <<"none">>

\* Number of threads that call the breaker at the same time
NumThreads == 2

Threads == 1..NumThreads

\* No thread has called the breaker.
BreakerThreadsIdle ==
    /\ thread_pc = [t \in Threads |-> "start"]
    /\ thread_reg = [t \in Threads |-> 0]
    /\ thread_outcome = [t \in Threads |-> "none"]

\* No thread has called the cache manager.
CacheThreadsIdle ==
    /\ cthread_pc = [t \in Threads |-> "idle"]
    /\ cthread_op = [t \in Threads |-> <<"none">>]
    /\ cthread_log = [t \in Threads |-> <<>>]

\* Number of workers that save at the same time
NumWorkers == 2

Workers == 1..NumWorkers

\* No worker has called save_daily_data.
WorkersIdle ==
    /\ worker_pc = [w \in Workers |-> "start"]
    /\ worker_args = [w \in Workers |-> <<"none">>]
    /\ worker_existing = [w \in Workers |-> {}]
    /\ worker_new = [w \in Workers |-> <<>>]
    /\ worker_result = [w \in Workers |-> <<"none">>]

\* The accessors of the process-wide singletons
Accessors == {"get_config", "get_cache_manager", "get_notification_service",
              "StockNameResolver"}

\* No accessor has been called: every global is None.
SingletonIdle ==
    /\ _instance = [a \in Accessors |-> None]
    /\ objects = <<>>
    /\ sthread_pc = [t \in Threads |-> "start"]
    /\ sthread_call = [t \in Threads |-> ""]
    /\ sthread_self = [t \in Threads |-> None]
    /\ sthread_result = [t \in Threads |-> <<"none">>]

\* A fetcher on which get_daily_data was never called.
BaseFetcherIdle ==
    /\ bf_pc = "idle"
    /\ bf_source = <<"none">>
    /\ bf_df = None
    /\ bf_steps = <<>>
    /\ bf_result = <<"none">>
    /\ bf_calls = 0

\* validate has not been called.
NotCalled == <<"not called">>

ValidatorIdle ==
    /\ vcode = <<>>
    /\ vreturn = NotCalled
    /\ vagain = NotCalled

\* The components added after the breaker, all untouched.
LaterIdle ==
    FetchIdle /\ RetryIdle /\ CacheIdle /\ StorageIdle /\ ContextIdle /\
    NotifyIdle /\ BreakerThreadsIdle /\ CacheThreadsIdle /\ WorkersIdle /\
    SingletonIdle /\ BaseFetcherIdle /\ ValidatorIdle

(***************************************************************************)
(*                       Decision engine: analyze                          *)
(***************************************************************************)

Abs(x) == IF x < 0 THEN -x ELSE x

Min(a, b) == IF a < b THEN a ELSE b

Max(a, b) == IF a > b THEN a ELSE b

\* The fraction n/d (d > 0) standing for a float.
Frac(n, d) == [n |-> n, d |-> d]

FracZero == Frac(0, 1)

\* One entry of signal_reasons, risk_factors, sentiment_reasons or risks:
\* the message (tag) and the values formatted into it.
Item(tag, txt, kw, num) == [tag |-> tag, txt |-> txt, kw |-> kw, num |-> num]

Digits == {"0", "1", "2", "3", "4", "5", "6", "7", "8", "9"}

\* MARKET_CONFIG: the fields analyze reads.
MARKET_CONFIG ==
    [A_share |-> [bias_threshold |-> 5, atr_min_pct |-> 1, atr_max_pct |-> 4],
     HK      |-> [bias_threshold |-> 6, atr_min_pct |-> 1, atr_max_pct |-> 6]]

\* Volume thresholds, in tenths.
VOLUME_SHRINK_RATIO == 7

VOLUME_HEAVY_RATIO == 15

\* len(df) < 20 returns the default result.
MinRows == 20

\* A-share: six characters, all digits; anything else is Hong Kong.
_detect_market_type(code) ==
    IF Len(code) = 6 /\ \A k \in 1..Len(code) : code[k] \in Digits
    THEN "A_share"
    ELSE "HK"

\* TrendAnalysisResult(code=code): the dataclass defaults.
TrendAnalysisResult(code) ==
    [code |-> code,
     trend_status |-> "CONSOLIDATION",
     ma5 |-> 0, ma10 |-> 0, ma20 |-> 0, current_price |-> 0,
     bias_ma5 |-> FracZero,
     volume_status |-> "NORMAL",
     volume_ratio_5d |-> 0,
     buy_signal |-> "WAIT",
     signal_score |-> 0,
     signal_reasons |-> <<>>,
     risk_factors |-> <<>>,
     macd_golden_cross |-> FALSE,
     macd_bearish |-> FALSE,
     rsi |-> 50,
     atr |-> 0,
     atr_pct |-> FracZero,
     market_type |-> "A_share",
     sentiment_check |-> FALSE,
     sentiment_result |-> "",
     sentiment_score |-> 0,
     sentiment_reasons |-> <<>>]

_analyze_trend_status(close, ma5, ma10, ma20) ==
    IF close > ma5 /\ ma5 > ma10 /\ ma10 > ma20 /\ ma20 > 0
    THEN IF (ma5 - ma10) > (ma10 - ma20) THEN "STRONG_BULL" ELSE "BULL"
    ELSE IF close < ma5 /\ ma5 < ma10 /\ ma10 < ma20 /\ ma20 > 0
    THEN "BEAR"
    ELSE IF close > ma5 /\ ma5 > ma10 /\ ma10 > ma20
    THEN "WEAK_BULL"
    ELSE IF close < ma5 /\ ma5 < ma10 /\ ma10 < ma20
    THEN "WEAK_BEAR"
    ELSE "CONSOLIDATION"

_analyze_volume(vol_ratio, price_change) ==
    IF vol_ratio >= VOLUME_HEAVY_RATIO
    THEN IF price_change > 0 THEN "HEAVY_VOLUME_UP" ELSE "HEAVY_VOLUME_DOWN"
    ELSE IF vol_ratio <= VOLUME_SHRINK_RATIO
    THEN IF price_change > 0 THEN "SHRINK_VOLUME_UP" ELSE "SHRINK_VOLUME_DOWN"
    ELSE "NORMAL"

\* _fill_basic_data(result, latest, prev)
_fill_basic_data(result, latest) ==
    [result EXCEPT
        !.ma5 = latest.ma5,
        !.ma10 = latest.ma10,
        !.ma20 = latest.ma20,
        !.current_price = latest.close,
        !.bias_ma5 = IF latest.ma5 > 0
                     THEN Frac((latest.close - latest.ma5) * 100, latest.ma5)
                     ELSE FracZero,
        !.trend_status = _analyze_trend_status(latest.close, latest.ma5,
                                               latest.ma10, latest.ma20),
        !.volume_ratio_5d = latest.volume_ratio,
        !.volume_status = _analyze_volume(latest.volume_ratio, latest.pct_chg),
        !.rsi = latest.rsi,
        !.atr = latest.atr,
        !.atr_pct = IF latest.atr > 0 /\ latest.close > 0
                    THEN Frac(latest.atr * 100, latest.close)
                    ELSE FracZero]

\* Faulty variant of _check_trend_filter: WEAK_BULL passes too.
_check_trend_filter_weak(result) ==
    result.trend_status \in {"STRONG_BULL", "BULL", "WEAK_BULL"}

\* Layer 1: the status is STRONG_BULL or BULL.
_check_trend_filter(result) ==
    result.trend_status \in {"STRONG_BULL", "BULL"}

\* Faulty variant of BiasOvershoot: > in place of >=.
BiasOvershoot_strict(bias, bias_threshold) ==
    Abs(bias.n) > bias_threshold * bias.d

\* Layer 2, the test of line 262: abs(result.bias_ma5) >= bias_threshold.
BiasOvershoot(bias, bias_threshold) ==
    Abs(bias.n) >= bias_threshold * bias.d

\* Layer 3, MACD: golden cross +10; a dead cross is a risk only.
MacdConfirm(latest, prev) ==
    LET golden == prev.macd <= prev.macd_signal /\ latest.macd > latest.macd_signal
        bearish == ~golden /\ prev.macd >= prev.macd_signal
                           /\ latest.macd < latest.macd_signal
    IN [golden |-> golden,
        bearish |-> bearish,
        bonus |-> IF golden THEN 10 ELSE 0,
        reasons |-> IF golden THEN <<Item("macd_golden_cross", "", <<>>, <<>>)>>
                    ELSE <<>>,
        risks |-> IF bearish THEN <<Item("macd_dead_cross", "", <<>>, <<>>)>>
                  ELSE <<>>]

\* Faulty variant of RsiConfirm: the healthy zone runs up to 80.
RsiConfirm_noband(rsi) ==
    IF rsi < 30
    THEN [bonus |-> 15, reasons |-> <<Item("rsi_oversold", "", <<>>, <<rsi>>)>>,
          risks |-> <<>>]
    ELSE IF rsi < 80
    THEN [bonus |-> 10, reasons |-> <<Item("rsi_healthy", "", <<>>, <<rsi>>)>>,
          risks |-> <<>>]
    ELSE [bonus |-> 0, reasons |-> <<>>,
          risks |-> <<Item("rsi_overbought", "", <<>>, <<rsi>>)>>]

\* Layer 3, RSI: < 30 gives +15, < 70 gives +10, otherwise a risk only.
RsiConfirm(rsi) ==
    IF rsi < 30
    THEN [bonus |-> 15, reasons |-> <<Item("rsi_oversold", "", <<>>, <<rsi>>)>>,
          risks |-> <<>>]
    ELSE IF rsi < 70
    THEN [bonus |-> 10, reasons |-> <<Item("rsi_healthy", "", <<>>, <<rsi>>)>>,
          risks |-> <<>>]
    ELSE IF rsi < 80
    THEN [bonus |-> 0, reasons |-> <<>>,
          risks |-> <<Item("rsi_near_overbought", "", <<>>, <<rsi>>)>>]
    ELSE [bonus |-> 0, reasons |-> <<>>,
          risks |-> <<Item("rsi_overbought", "", <<>>, <<rsi>>)>>]

\* Layer 3, ATR: atr_min < atr_pct < atr_max gives +5; atr_pct >= atr_max
\* is a risk only.
AtrConfirm(atr_pct, config) ==
    IF config.atr_min_pct * atr_pct.d < atr_pct.n
       /\ atr_pct.n < config.atr_max_pct * atr_pct.d
    THEN [bonus |-> 5,
          reasons |-> <<Item("atr_healthy", "", <<>>, <<atr_pct.n, atr_pct.d>>)>>,
          risks |-> <<>>]
    ELSE IF atr_pct.n >= config.atr_max_pct * atr_pct.d
    THEN [bonus |-> 0, reasons |-> <<>>,
          risks |-> <<Item("atr_too_high", "", <<>>, <<atr_pct.n, atr_pct.d>>)>>]
    ELSE [bonus |-> 0, reasons |-> <<>>, risks |-> <<>>]

\* Layer 3, volume: SHRINK_VOLUME_DOWN +10, HEAVY_VOLUME_UP +8.
VolumeConfirm(volume_status) ==
    IF volume_status = "SHRINK_VOLUME_DOWN"
    THEN [bonus |-> 10,
          reasons |-> <<Item("shrink_volume_pullback", "", <<>>, <<>>)>>]
    ELSE IF volume_status = "HEAVY_VOLUME_UP"
    THEN [bonus |-> 8, reasons |-> <<Item("heavy_volume_up", "", <<>>, <<>>)>>]
    ELSE [bonus |-> 0, reasons |-> <<>>]

\* _check_auxiliary_indicators: (score, reasons, risks) and the two MACD
\* flags it stores in the result.
_check_auxiliary_indicators(df, result, base_score, config) ==
    LET m == MacdConfirm(df.latest, df.prev)
        r == RsiConfirm(result.rsi)
        a == AtrConfirm(result.atr_pct, config)
        v == VolumeConfirm(result.volume_status)
    IN [score |-> base_score + m.bonus + r.bonus + a.bonus + v.bonus,
        reasons |-> m.reasons \o r.reasons \o a.reasons \o v.reasons,
        risks |-> m.risks \o r.risks \o a.risks,
        golden |-> m.golden,
        bearish |-> m.bearish]

\* keyword in news_context
Contains(text, kw) ==
    \E s \in 0..(Len(text) - Len(kw)) :
        \A k \in 1..Len(kw) : text[s + k] = kw[k]

\* The negative keyword dictionary, in insertion order, with its severity
\* tags (severe, moderate, mild).
negative_keywords ==
    <<
      [kw |-> <<"U9020", "U5047">>, sev |-> "severe"],  \* fraud (line 570)
      [kw |-> <<"U8D22", "U52A1", "U9020", "U5047">>, sev |-> "severe"],  \* financial fraud (line 570)
      [kw |-> <<"U865A", "U589E", "U5229", "U6DA6">>, sev |-> "severe"],  \* inflated profit (line 570)
      [kw |-> <<"U8D22", "U52A1", "U8FDD", "U89C4">>, sev |-> "severe"],  \* financial violation (line 570)
      [kw |-> <<"U4E8F", "U635F">>, sev |-> "moderate"],  \* loss (line 571)
      [kw |-> <<"U4E1A", "U7EE9", "U4E0B", "U6ED1">>, sev |-> "moderate"],  \* earnings decline (line 571)
      [kw |-> <<"U4E1A", "U7EE9", "U66B4", "U96F7">>, sev |-> "severe"],  \* earnings blow-up (line 571)
      [kw |-> <<"U503A", "U52A1">>, sev |-> "moderate"],  \* debt (line 572)
      [kw |-> <<"U503A", "U52A1", "U8FDD", "U7EA6">>, sev |-> "severe"],  \* debt default (line 572)
      [kw |-> <<"U8D44", "U4E0D", "U62B5", "U503A">>, sev |-> "severe"],  \* insolvent (line 572)
      [kw |-> <<"U8C03", "U67E5">>, sev |-> "severe"],  \* investigation (line 575)
      [kw |-> <<"U7ACB", "U6848">>, sev |-> "severe"],  \* case filed (line 575)
      [kw |-> <<"U7ACB", "U6848", "U8C03", "U67E5">>, sev |-> "severe"],  \* case filed for investigation (line 575)
      [kw |-> <<"U5904", "U7F5A">>, sev |-> "moderate"],  \* penalty (line 576)
      [kw |-> <<"U7F5A", "U6B3E">>, sev |-> "moderate"],  \* fine (line 576)
      [kw |-> <<"U76D1", "U7BA1">>, sev |-> "mild"],  \* regulation (line 576)
      [kw |-> <<"U9000", "U5E02">>, sev |-> "severe"],  \* delisting (line 577)
      [kw |-> <<"U9000", "U5E02", "U98CE", "U9669">>, sev |-> "severe"],  \* delisting risk (line 577)
      [kw |-> <<"S", "T">>, sev |-> "severe"],  \* ST (line 577)
      [kw |-> <<"U8FDD", "U89C4">>, sev |-> "moderate"],  \* violation (line 578)
      [kw |-> <<"U8FDD", "U89C4", "U62C5", "U4FDD">>, sev |-> "severe"],  \* illegal guarantee (line 578)
      [kw |-> <<"U5185", "U5E55", "U4EA4", "U6613">>, sev |-> "severe"],  \* insider trading (line 578)
      [kw |-> <<"U8BC9", "U8BBC">>, sev |-> "moderate"],  \* litigation (line 581)
      [kw |-> <<"U8D77", "U8BC9">>, sev |-> "moderate"],  \* sue (line 581)
      [kw |-> <<"U88AB", "U8BC9">>, sev |-> "moderate"],  \* sued (line 581)
      [kw |-> <<"U5B98", "U53F8">>, sev |-> "mild"],  \* lawsuit (line 582)
      [kw |-> <<"U7EA0", "U7EB7">>, sev |-> "mild"],  \* dispute (line 582)
      [kw |-> <<"U505C", "U4EA7">>, sev |-> "severe"],  \* production halt (line 585)
      [kw |-> <<"U505C", "U4EA7", "U6574", "U987F">>, sev |-> "severe"],  \* halt for rectification (line 585)
      [kw |-> <<"U5012", "U95ED">>, sev |-> "severe"],  \* closure (line 586)
      [kw |-> <<"U7834", "U4EA7">>, sev |-> "severe"],  \* bankruptcy (line 586)
      [kw |-> <<"U7834", "U4EA7", "U91CD", "U6574">>, sev |-> "severe"],  \* bankruptcy reorganisation (line 586)
      [kw |-> <<"U88C1", "U5458">>, sev |-> "moderate"],  \* layoffs (line 587)
      [kw |-> <<"U88C1", "U5458", "U98CE", "U6CE2">>, sev |-> "moderate"],  \* layoff turmoil (line 587)
      [kw |-> <<"U653F", "U7B56">>, sev |-> "mild"],  \* policy (line 590)
      [kw |-> <<"U653F", "U7B56", "U98CE", "U9669">>, sev |-> "moderate"],  \* policy risk (line 590)
      [kw |-> <<"U76D1", "U7BA1", "U6536", "U7D27">>, sev |-> "moderate"],  \* regulation tightening (line 591)
      [kw |-> <<"U52A0", "U5F3A", "U76D1", "U7BA1">>, sev |-> "moderate"],  \* strengthened regulation (line 591)
      [kw |-> <<"U66B4", "U8DCC">>, sev |-> "moderate"],  \* plunge (line 594)
      [kw |-> <<"U5927", "U8DCC">>, sev |-> "mild"],  \* sharp fall (line 594)
      [kw |-> <<"U98CE", "U9669">>, sev |-> "mild"],  \* risk (line 595)
      [kw |-> <<"U8B66", "U793A">>, sev |-> "mild"],  \* warning (line 595)
      [kw |-> <<"U98CE", "U9669", "U63D0", "U793A">>, sev |-> "mild"]  \* risk notice (line 595)
    >>

\* The positive keyword dictionary, in insertion order, with its strength
\* tags (strong, moderate, mild); a key written twice keeps its first place.
positive_keywords ==
    <<
      [kw |-> <<"U589E", "U957F">>, sev |-> "mild"],  \* growth (line 600)
      [kw |-> <<"U4E1A", "U7EE9", "U589E", "U957F">>, sev |-> "moderate"],  \* earnings growth (line 600)
      [kw |-> <<"U4E1A", "U7EE9", "U8D85", "U9884", "U671F">>, sev |-> "strong"],  \* earnings beat (line 600)
      [kw |-> <<"U5927", "U589E">>, sev |-> "moderate"],  \* surge (line 601)
      [kw |-> <<"U66B4", "U589E">>, sev |-> "strong"],  \* soar (line 601)
      [kw |-> <<"U5927", "U6DA8">>, sev |-> "moderate"],  \* rally (line 601)
      [kw |-> <<"U56DE", "U8D2D">>, sev |-> "strong"],  \* buyback (line 604)
      [kw |-> <<"U80A1", "U4EFD", "U56DE", "U8D2D">>, sev |-> "strong"],  \* share buyback (line 604)
      [kw |-> <<"U589E", "U6301">>, sev |-> "strong"],  \* holding increase (line 604)
      [kw |-> <<"U91CD", "U5927", "U5408", "U540C">>, sev |-> "moderate"],  \* major contract (line 605)
      [kw |-> <<"U4E2D", "U6807">>, sev |-> "moderate"],  \* bid won (line 605)
      [kw |-> <<"U8BA2", "U5355">>, sev |-> "mild"],  \* orders (line 605)
      [kw |-> <<"U83B7", "U6279">>, sev |-> "moderate"],  \* approved (line 608)
      [kw |-> <<"U8BA4", "U8BC1">>, sev |-> "moderate"],  \* certification (line 608)
      [kw |-> <<"U7A81", "U7834">>, sev |-> "moderate"],  \* breakthrough (line 608)
      [kw |-> <<"U72EC", "U5BB6">>, sev |-> "moderate"],  \* exclusive (line 609)
      [kw |-> <<"U9996", "U53D1">>, sev |-> "moderate"],  \* debut (line 609)
      [kw |-> <<"U9996", "U521B">>, sev |-> "moderate"],  \* first of its kind (line 609)
      [kw |-> <<"U5206", "U7EA2">>, sev |-> "mild"],  \* dividend (line 612)
      [kw |-> <<"U6D3E", "U606F">>, sev |-> "mild"],  \* payout (line 612)
      [kw |-> <<"U9AD8", "U9001", "U8F6C">>, sev |-> "moderate"],  \* bonus shares (line 612)
      [kw |-> <<"U8C03", "U7814">>, sev |-> "mild"],  \* survey (line 615)
      [kw |-> <<"U673A", "U6784", "U8C03", "U7814">>, sev |-> "moderate"]  \* institutional survey (line 615)
    >>

\* for keyword, severity in dict.items(): if keyword in news_context: append
KeywordsFound(dict, news_context) ==
    SelectSeq(dict, LAMBDA e : Contains(news_context, e.kw))

\* any(sev == severe for _, sev in negative_found)
has_severe_negative(negative_found) ==
    \E k \in 1..Len(negative_found) : negative_found[k].sev = "severe"

\* Faulty variant of has_many_negative: > in place of >=.
has_many_negative_off_by_one(negative_found) == Len(negative_found) > 3

\* len(negative_found) >= 3
has_many_negative(negative_found) == Len(negative_found) >= 3

\* sum(1 for _, s in positive_found if s in [strong, moderate])
strong_positive(positive_found) ==
    Cardinality({k \in 1..Len(positive_found) :
                    positive_found[k].sev \in {"strong", "moderate"}})

\* Layer 4: (passed, info) with info = {result, score, reasons, risks}.
_check_sentiment_filter(news_context) ==
    LET negative_found == KeywordsFound(negative_keywords, news_context)
        positive_found == KeywordsFound(positive_keywords, news_context)
        severe == SelectSeq(negative_found, LAMBDA e : e.sev = "severe")
        shown == SelectSeq(SubSeq(positive_found, 1, Min(3, Len(positive_found))),
                           LAMBDA e : e.sev \in {"strong", "moderate"})
    IN IF has_severe_negative(negative_found) \/ has_many_negative(negative_found)
       THEN [passed |-> FALSE,
             result |-> "MAJOR_NEGATIVE",
             score |-> 0,
             reasons |-> <<>>,
             risks |-> <<Item("sentiment_major_negative", "", <<>>, <<>>)>>
                       \o [k \in 1..Len(severe) |->
                             Item("sentiment_keyword", severe[k].sev, severe[k].kw, <<>>)]]
       ELSE IF positive_found # <<>> /\ strong_positive(positive_found) >= 2
       THEN [passed |-> TRUE,
             result |-> "CLEAR_POSITIVE",
             score |-> 5,
             reasons |-> <<Item("sentiment_many_positive", "", <<>>, <<>>)>>
                         \o [k \in 1..Len(shown) |->
                               Item("sentiment_keyword", "", shown[k].kw, <<>>)],
             risks |-> <<>>]
       ELSE IF positive_found # <<>> /\ strong_positive(positive_found) >= 1
       THEN [passed |-> TRUE,
             result |-> "SLIGHT_POSITIVE",
             score |-> 2,
             reasons |-> <<Item("sentiment_positive", "", <<>>, <<>>)>>,
             risks |-> <<>>]
       ELSE IF negative_found # <<>>
       THEN [passed |-> TRUE,
             result |-> "NEUTRAL_NEGATIVE",
             score |-> 0,
             reasons |-> <<>>,
             risks |-> <<Item("sentiment_mild_negative", "", <<>>, <<>>)>>]
       ELSE [passed |-> TRUE,
             result |-> "NEUTRAL",
             score |-> 0,
             reasons |-> <<>>,
             risks |-> <<>>]

\* Faulty variant of FinalSignal: STRONG_BUY from 80 only.
FinalSignal_eighty(score) ==
    IF score >= 80 THEN "STRONG_BUY"
    ELSE IF score >= 60 THEN "BUY"
    ELSE "WAIT"

\* The final mapping of lines 321-328.
FinalSignal(score) ==
    IF score >= 70 THEN "STRONG_BUY"
    ELSE IF score >= 60 THEN "BUY"
    ELSE "WAIT"

\* if news_context: a None or an empty string skips Layer 4.
NewsSupplied(news) == ~news.isNone /\ news.text # <<>>

\* Lines 288-336: Layer 4 and the final decision, from the state Layer 3
\* leaves (score, reasons, risks).
SentimentAndDecision(result, news, score, reasons, risks) ==
    IF NewsSupplied(news)
    THEN LET info == _check_sentiment_filter(news.text)
             checked == [result EXCEPT !.sentiment_check = TRUE,
                                       !.sentiment_result = info.result,
                                       !.sentiment_score = info.score,
                                       !.sentiment_reasons = info.reasons]
         IN IF ~info.passed
            THEN [checked EXCEPT !.buy_signal = "WAIT",
                                 !.signal_score = score,
                                 !.signal_reasons = reasons,
                                 !.risk_factors = risks \o info.risks]
            ELSE LET score4 == IF info.score > 0 THEN score + info.score ELSE score
                     reasons4 == IF info.score > 0 THEN reasons \o info.reasons
                                 ELSE reasons
                 IN [checked EXCEPT !.signal_score = Min(score4, 100),
                                    !.signal_reasons = reasons4,
                                    !.risk_factors = risks,
                                    !.buy_signal = FinalSignal(score4)]
    ELSE [result EXCEPT !.signal_score = Min(score, 100),
                        !.signal_reasons = reasons,
                        !.risk_factors = risks,
                        !.buy_signal = FinalSignal(score)]

\* StockTrendAnalyzer.analyze(df, code, news_context)
analyze(df, code, news) ==
    LET market_type == _detect_market_type(code)
        config == MARKET_CONFIG[market_type]
        result0 == [TrendAnalysisResult(code) EXCEPT !.market_type = market_type]
    IN IF df.isNone \/ df.len < MinRows
       THEN result0
       ELSE LET result == _fill_basic_data(result0, df.latest)
            IN IF ~_check_trend_filter(result)
               THEN [result EXCEPT
                       !.buy_signal = "WAIT",
                       !.signal_score = 0,
                       !.signal_reasons =
                           <<Item("trend_filter_failed", "", <<>>, <<>>)>>,
                       !.risk_factors =
                           <<Item("no_short", result.trend_status, <<>>, <<>>)>>]
               ELSE LET reasons1 == <<Item("trend_filter_passed",
                                           result.trend_status, <<>>, <<>>)>>
                    IN IF BiasOvershoot(result.bias_ma5, config.bias_threshold)
                       THEN [result EXCEPT
                               !.buy_signal = "WAIT",
                               !.signal_score = 40,
                               !.signal_reasons = reasons1,
                               !.risk_factors =
                                   <<Item("bias_overshoot", market_type, <<>>,
                                          <<result.bias_ma5.n, result.bias_ma5.d,
                                            config.bias_threshold>>)>>]
                       ELSE LET reasons2 ==
                                    Append(reasons1,
                                           Item(IF result.bias_ma5.n < 0
                                                THEN "bias_pullback"
                                                ELSE "bias_safe", "", <<>>,
                                                <<result.bias_ma5.n, result.bias_ma5.d>>))
                                aux == _check_auxiliary_indicators(df, result, 40 + 30,
                                                                   config)
                                result3 == [result EXCEPT
                                              !.macd_golden_cross = aux.golden,
                                              !.macd_bearish = aux.bearish]
                            IN SentimentAndDecision(result3, news, aux.score,
                                                    reasons2 \o aux.reasons, aux.risks)

(***************************************************************************)
(* The calls of analyze that are made: the arguments are drawn from the    *)
(* sets below.                                                             *)
(***************************************************************************)

\* '600519' (six digits), '00700.HK' and '01339' (five digits).
Codes ==
    {<<"6", "0", "0", "5", "1", "9">>,
     <<"0", "0", "7", "0", "0", ".", "H", "K">>,
     <<"0", "1", "3", "3", "9">>}

\* An empty frame's bar is never read.
NoBar ==
    [close |-> 0, ma5 |-> 0, ma10 |-> 0, ma20 |-> 0, volume_ratio |-> 10,
     pct_chg |-> 0, macd |-> 0, macd_signal |-> 0, rsi |-> 50, atr |-> 0]

\* The last bar of the frame.  ma5 = 100 makes close - ma5 the bias in percent.
LatestBars ==
    [close : {95, 104, 105, 106},
     ma5 : {100},
     ma10 : {96, 102},
     ma20 : {0, 90, 94, 103},
     volume_ratio : {7, 10, 15},
     pct_chg : {0, 1},
     macd : {-1, 1},
     macd_signal : {0},
     rsi : {29, 30, 70, 80},
     atr : {0, 4, 5, 7}]

\* The bar before it: only its MACD columns are read.
PrevBars ==
    {[NoBar EXCEPT !.macd = m] : m \in {-1, 0, 1}}

\* df is None, or a frame too short, or a frame of at least MinRows rows.
Frames ==
    {[isNone |-> TRUE, len |-> 0, latest |-> NoBar, prev |-> NoBar]}
    \cup {[isNone |-> FALSE, len |-> n, latest |-> NoBar, prev |-> NoBar] :
            n \in {0, MinRows - 1}}
    \cup [isNone : {FALSE}, len : {MinRows}, latest : LatestBars, prev : PrevBars]

\* news_context: None, the empty string, or a text.
NewsTexts ==
    {<<>>,
     \* formal investigation: three severe keywords
     <<"U7ACB", "U6848", "U8C03", "U67E5">>,
     \* loss, penalty, litigation, buyback: three moderate negatives and a
     \* strong positive
     <<"U4E8F", "U635F", "U5904", "U7F5A", "U8BC9", "U8BBC", "U56DE", "U8D2D">>,
     \* loss, penalty: two moderate keywords
     <<"U4E8F", "U635F", "U5904", "U7F5A">>,
     \* regulation: one mild keyword
     <<"U76D1", "U7BA1">>,
     \* buyback: one strong positive
     <<"U56DE", "U8D2D">>,
     \* growth, buyback, bid won, approved: four positives, the first mild
     <<"U589E", "U957F", "U56DE", "U8D2D", "U4E2D", "U6807", "U83B7", "U6279">>,
     \* loss and buyback: a moderate negative with a strong positive
     <<"U4E8F", "U635F", "U56DE", "U8D2D">>}

NewsContexts ==
    {[isNone |-> TRUE, text |-> <<>>]}
    \cup {[isNone |-> FALSE, text |-> t] : t \in NewsTexts}

Inputs == [df : Frames, code : Codes, news : NewsContexts]

\* The call analyze(df, code, news_context) on the arguments held in inp;
\* res holds what it returned.
Analyze ==
    /\ res = <<>>
    /\ res' = <<analyze(inp.df, inp.code, inp.news)>>
    /\ UNCHANGED inp
    /\ UNCHANGED breakerVars
    /\ UNCHANGED laterVars

(***************************************************************************)
(*                            Circuit breaker                              *)
(***************************************************************************)

MaxThreshold == 3

MaxTimeout == 2

MaxHalfOpen == 2

MaxTime == 5

MaxCalls == 6

\* last_failure_time / last_success_time = None
NoTime == -1

\* CircuitBreaker.__init__
BreakerInit ==
    /\ failure_threshold \in 1..MaxThreshold
    /\ timeout \in 0..MaxTimeout
    /\ half_open_max_calls \in 1..MaxHalfOpen
    /\ state = "CLOSED"
    /\ failure_count = 0
    /\ success_count = 0
    /\ last_failure_time = NoTime
    /\ last_success_time = NoTime
    /\ half_open_calls = 0
    /\ now = 0
    /\ pc = "idle"
    /\ outcome = "none"
    /\ invocations = 0
    /\ calls = 0
    /\ only_failures = TRUE
    /\ episode_successes = 0

\* The arguments of the call, and no result yet.
AnalyzerInit ==
    /\ inp \in Inputs
    /\ res = <<>>

\* Faulty variant of _should_attempt_reset: one second early.
_should_attempt_reset_early ==
    /\ last_failure_time # NoTime
    /\ now - last_failure_time >= timeout - 1

\* _should_attempt_reset
_should_attempt_reset ==
    /\ last_failure_time # NoTime
    /\ now - last_failure_time >= timeout

\* CircuitBreaker.call up to the invocation of the protected function
\* (lines 91-104): an OPEN breaker either moves to HALF_OPEN
\* (_transition_to_half_open) or raises CircuitBreakerOpenError.
CallEnter ==
    /\ pc = "idle"
    /\ calls < MaxCalls
    /\ calls' = calls + 1
    /\ IF state = "OPEN" /\ ~_should_attempt_reset
       THEN /\ outcome' = "rejected"
            /\ only_failures' = FALSE
            /\ UNCHANGED <<state, half_open_calls, pc, invocations,
                           episode_successes>>
       ELSE /\ state' = IF state = "OPEN" THEN "HALF_OPEN" ELSE state
            /\ half_open_calls' = IF state = "OPEN" THEN 0 ELSE half_open_calls
            /\ pc' = "in_func"
            /\ invocations' = invocations + 1
            /\ episode_successes' = IF state = "OPEN" THEN 0 ELSE episode_successes
            /\ UNCHANGED <<outcome, only_failures>>
    /\ UNCHANGED <<failure_threshold, timeout, half_open_max_calls, failure_count,
                   success_count, last_failure_time, last_success_time, now>>
    /\ UNCHANGED analyzerVars
    /\ UNCHANGED laterVars

\* Faulty variant of _on_success: a success in CLOSED zeroes failure_count.
_on_success_reset ==
    IF state = "HALF_OPEN"
    THEN IF half_open_calls + 1 >= half_open_max_calls
         THEN [state |-> "CLOSED", failure_count |-> 0, success_count |-> 0,
               half_open_calls |-> half_open_calls + 1]
         ELSE [state |-> state, failure_count |-> failure_count,
               success_count |-> success_count + 1,
               half_open_calls |-> half_open_calls + 1]
    ELSE IF state = "CLOSED"
    THEN [state |-> state,
          failure_count |-> 0,
          success_count |-> success_count + 1,
          half_open_calls |-> half_open_calls]
    ELSE [state |-> state, failure_count |-> failure_count,
          success_count |-> success_count + 1,
          half_open_calls |-> half_open_calls]

\* Faulty variant of _on_success: the first success in HALF_OPEN closes.
_on_success_first ==
    IF state = "HALF_OPEN"
    THEN [state |-> "CLOSED", failure_count |-> 0, success_count |-> 0,
          half_open_calls |-> half_open_calls + 1]
    ELSE IF state = "CLOSED"
    THEN [state |-> state,
          failure_count |-> IF failure_count > 0
                            THEN Max(0, failure_count - 1)
                            ELSE failure_count,
          success_count |-> success_count + 1,
          half_open_calls |-> half_open_calls]
    ELSE [state |-> state, failure_count |-> failure_count,
          success_count |-> success_count + 1,
          half_open_calls |-> half_open_calls]

\* _on_success: the new (state, failure_count, success_count, half_open_calls).
_on_success ==
    IF state = "HALF_OPEN"
    THEN IF half_open_calls + 1 >= half_open_max_calls
         THEN [state |-> "CLOSED", failure_count |-> 0, success_count |-> 0,
               half_open_calls |-> half_open_calls + 1]
         ELSE [state |-> state, failure_count |-> failure_count,
               success_count |-> success_count + 1,
               half_open_calls |-> half_open_calls + 1]
    ELSE IF state = "CLOSED"
    THEN [state |-> state,
          failure_count |-> IF failure_count > 0
                            THEN Max(0, failure_count - 1)
                            ELSE failure_count,
          success_count |-> success_count + 1,
          half_open_calls |-> half_open_calls]
    ELSE [state |-> state, failure_count |-> failure_count,
          success_count |-> success_count + 1,
          half_open_calls |-> half_open_calls]

\* Faulty variant of _on_failure: > in place of >=.
_on_failure_late ==
    IF state = "HALF_OPEN"
    THEN "OPEN"
    ELSE IF state = "CLOSED" /\ failure_count + 1 > failure_threshold
    THEN "OPEN"
    ELSE state

\* Faulty variant of _on_failure: a failure in HALF_OPEN does not reopen.
_on_failure_half_open_stays ==
    IF state = "CLOSED" /\ failure_count + 1 >= failure_threshold
    THEN "OPEN"
    ELSE state

\* _on_failure: the new state; failure_count and last_failure_time are set
\* in FuncRaises, as lines 164-165 set them in every state.
_on_failure ==
    IF state = "HALF_OPEN"
    THEN "OPEN"
    ELSE IF state = "CLOSED" /\ failure_count + 1 >= failure_threshold
    THEN "OPEN"
    ELSE state

\* The protected function returns: _on_success (lines 104-109).
FuncReturns ==
    /\ pc = "in_func"
    /\ LET n == _on_success
       IN /\ state' = n.state
          /\ failure_count' = n.failure_count
          /\ success_count' = n.success_count
          /\ half_open_calls' = n.half_open_calls
    /\ last_success_time' = now
    /\ pc' = "idle"
    /\ outcome' = "success"
    /\ only_failures' = FALSE
    /\ episode_successes' = IF state = "HALF_OPEN" THEN episode_successes + 1
                            ELSE episode_successes
    /\ UNCHANGED <<failure_threshold, timeout, half_open_max_calls,
                   last_failure_time, now, invocations, calls>>
    /\ UNCHANGED analyzerVars
    /\ UNCHANGED laterVars

\* The protected function raises: _on_failure, then the exception is
\* re-raised (lines 111-114).
FuncRaises ==
    /\ pc = "in_func"
    /\ failure_count' = failure_count + 1
    /\ last_failure_time' = now
    /\ state' = _on_failure
    /\ pc' = "idle"
    /\ outcome' = "failure"
    /\ UNCHANGED <<failure_threshold, timeout, half_open_max_calls, success_count,
                   last_success_time, half_open_calls, now, invocations, calls,
                   only_failures, episode_successes>>
    /\ UNCHANGED analyzerVars
    /\ UNCHANGED laterVars

\* CircuitBreaker.reset
Reset ==
    /\ pc = "idle"
    /\ state' = "CLOSED"
    /\ failure_count' = 0
    /\ success_count' = 0
    /\ last_failure_time' = NoTime
    /\ last_success_time' = NoTime
    /\ half_open_calls' = 0
    /\ only_failures' = TRUE
    /\ episode_successes' = 0
    /\ calls' = 0
    /\ invocations' = 0
    /\ outcome' = "none"
    /\ UNCHANGED <<failure_threshold, timeout, half_open_max_calls, now, pc>>
    /\ UNCHANGED analyzerVars
    /\ UNCHANGED laterVars

\* time.time() advances, between calls or while the protected function runs.
Tick ==
    /\ now < MaxTime
    /\ now' = now + 1
    /\ UNCHANGED <<failure_threshold, timeout, half_open_max_calls, state,
                   failure_count, success_count, last_failure_time,
                   last_success_time, half_open_calls, pc, outcome, invocations,
                   calls, only_failures, episode_successes>>
    /\ UNCHANGED analyzerVars
    /\ UNCHANGED laterVars

NextBreaker == CallEnter \/ FuncReturns \/ FuncRaises \/ Reset \/ Tick

\* No call of analyze is made while the breaker is exercised.
AnalyzerIdle ==
    /\ inp = [df |-> [isNone |-> TRUE, len |-> 0, latest |-> NoBar, prev |-> NoBar],
              code |-> <<>>,
              news |-> [isNone |-> TRUE, text |-> <<>>]]
    /\ res = <<>>

InitBreaker == AnalyzerIdle /\ BreakerInit /\ LaterIdle

SpecBreaker == InitBreaker /\ [][NextBreaker]_vars

\* CircuitBreaker() with the default arguments, never called.
BreakerDefault ==
    /\ failure_threshold = 5
    /\ timeout = 60
    /\ half_open_max_calls = 3
    /\ state = "CLOSED"
    /\ failure_count = 0
    /\ success_count = 0
    /\ last_failure_time = NoTime
    /\ last_success_time = NoTime
    /\ half_open_calls = 0
    /\ now = 0
    /\ pc = "idle"
    /\ outcome = "none"
    /\ invocations = 0
    /\ calls = 0
    /\ only_failures = TRUE
    /\ episode_successes = 0

InitAnalyzer == AnalyzerInit /\ BreakerDefault /\ LaterIdle

NextAnalyzer == Analyze

SpecAnalyzer == InitAnalyzer /\ [][NextAnalyzer]_vars

(***************************************************************************)
(*                  Properties of the decision engine                      *)
(***************************************************************************)

\* analyze has returned, on a frame of at least 20 rows.
Analyzed == res # <<>> /\ ~inp.df.isNone /\ inp.df.len >= 20

\* The latest bar is a bull alignment: close > ma5 > ma10 > ma20 > 0.
BullAlignment ==
    LET b == inp.df.latest
    IN b.close > b.ma5 /\ b.ma5 > b.ma10 /\ b.ma10 > b.ma20 /\ b.ma20 > 0

\* The symbol is six digits.
SixDigits ==
    Len(inp.code) = 6 /\ \A k \in 1..6 : inp.code[k] \in Digits

\* |bias_ma5| < bias_threshold, with bias_ma5 = (close - ma5) / ma5 * 100 and
\* the threshold 5.0 for a six-digit symbol and 6.0 otherwise (ma5 > 0).
WithinBias ==
    LET b == inp.df.latest
    IN Abs(b.close - b.ma5) * 100 < (IF SixDigits THEN 5 ELSE 6) * b.ma5

\* The tags of a list of reasons or risks.
Tags(items) == {items[k].tag : k \in 1..Len(items)}

Layer4Tags ==
    {"sentiment_many_positive", "sentiment_positive", "sentiment_keyword"}

\* C1: on a frame of at least 20 rows whose latest bar is not
\* close > ma5 > ma10 > ma20 > 0, analyze returns score 0 and WAIT, exactly
\* one reason, exactly one risk and that risk names the trend status, and
\* nothing of Layers 3 and 4 (no MACD flag, no sentiment check), whatever the
\* indicators and the news are.
C1_TrendFailIsWaitZero ==
    (Analyzed /\ ~BullAlignment) =>
        LET r == res[1]
        IN /\ r.signal_score = 0
           /\ r.buy_signal = "WAIT"
           /\ r.trend_status \notin {"STRONG_BULL", "BULL"}
           /\ Len(r.signal_reasons) = 1
           /\ r.signal_reasons[1].tag = "trend_filter_failed"
           /\ Len(r.risk_factors) = 1
           /\ r.risk_factors[1].tag = "no_short"
           /\ r.risk_factors[1].txt = r.trend_status
           /\ ~r.macd_golden_cross /\ ~r.macd_bearish
           /\ ~r.sentiment_check
           /\ r.sentiment_result = "" /\ r.sentiment_reasons = <<>>

\* C1 witness: a weak-bull bar (ma20 = 0) with a golden cross in the MACD
\* columns and a news text was analysed.
C1_Witness ==
    /\ Analyzed /\ ~BullAlignment
    /\ res[1].trend_status = "WEAK_BULL"
    /\ inp.df.prev.macd <= 0 /\ inp.df.latest.macd > 0
    /\ ~inp.news.isNone /\ inp.news.text # <<>>

\* No Layer-3 bonus is earned: no golden cross, RSI >= 70, ATR% outside
\* the band of the market, volume neither a shrinking pullback nor a heavy
\* rise.
NoLayer3Bonus ==
    LET b == inp.df.latest
        p == inp.df.prev
        config == MARKET_CONFIG[IF SixDigits THEN "A_share" ELSE "HK"]
    IN /\ ~(p.macd <= p.macd_signal /\ b.macd > b.macd_signal)
       /\ b.rsi >= 70
       /\ ~(config.atr_min_pct * b.close < b.atr * 100
            /\ b.atr * 100 < config.atr_max_pct * b.close)
       /\ ~(b.volume_ratio <= 7 /\ b.pct_chg <= 0)
       /\ ~(b.volume_ratio >= 15 /\ b.pct_chg > 0)

\* C2: an input that passes Layers 1 and 2, earns no Layer-3 bonus and has
\* no news_context gets signal_score = 70.
C2_FloorIsSeventy ==
    (Analyzed /\ BullAlignment /\ WithinBias /\ NoLayer3Bonus
       /\ (inp.news.isNone \/ inp.news.text = <<>>))
    => res[1].signal_score = 70

\* C2 witness: such an input with an RSI of exactly 70 and an ATR% above
\* the band.
C2_Witness ==
    /\ Analyzed /\ BullAlignment /\ WithinBias /\ NoLayer3Bonus
    /\ inp.news.isNone
    /\ inp.df.latest.rsi = 70
    /\ inp.df.latest.atr = 7
    /\ res[1].signal_score = 70

\* C3: with Layer 1 passed, Layer 2 passes iff |bias_ma5| < bias_threshold
\* (5.0 for a six-digit symbol, 6.0 otherwise); when it fails, analyze
\* returns WAIT at score 40 with the single Layer-1 reason and exactly one
\* risk, the overshoot, and Layers 3 and 4 leave no trace.
C3_PositionFilter ==
    (Analyzed /\ BullAlignment) =>
        LET r == res[1]
        IN IF WithinBias
           THEN /\ r.signal_score >= 70
                /\ Len(r.signal_reasons) >= 2
                /\ r.signal_reasons[2].tag \in {"bias_safe", "bias_pullback"}
                /\ "bias_overshoot" \notin Tags(r.risk_factors)
           ELSE /\ r.buy_signal = "WAIT"
                /\ r.signal_score = 40
                /\ Len(r.signal_reasons) = 1
                /\ r.signal_reasons[1].tag = "trend_filter_passed"
                /\ Len(r.risk_factors) = 1
                /\ r.risk_factors[1].tag = "bias_overshoot"
                /\ r.risk_factors[1].num[3] = (IF SixDigits THEN 5 ELSE 6)
                /\ ~r.macd_golden_cross /\ ~r.macd_bearish
                /\ ~r.sentiment_check

\* C3 witness: a five-digit symbol at a bias of exactly 6% is stopped by
\* Layer 2 although a news text was supplied.
C3_Witness ==
    /\ Analyzed /\ BullAlignment
    /\ Len(inp.code) = 5
    /\ inp.df.latest.close = 106 /\ inp.df.latest.ma5 = 100
    /\ ~inp.news.isNone /\ inp.news.text # <<>>
    /\ res[1].signal_score = 40
    /\ res[1].market_type = "HK"

\* C4: every result analyze returns has 0 <= signal_score <= 100.
C4_ScoreInRange ==
    res # <<>> => (0 <= res[1].signal_score /\ res[1].signal_score <= 100)

\* The negative keywords the news text contains, as the claim counts them.
NegativesInNews ==
    {k \in 1..Len(negative_keywords) :
        Contains(inp.news.text, negative_keywords[k].kw)}

\* A severe negative keyword, or at least three negative keywords.
VetoCondition ==
    \/ \E k \in NegativesInNews : negative_keywords[k].sev = "severe"
    \/ Cardinality(NegativesInNews) >= 3

\* C5: with Layers 1 and 2 passed and a news text holding a severe negative
\* keyword or at least three negative keywords, analyze returns WAIT with
\* the score of Layer 3 (unchanged by any positive keyword), the reasons of
\* Layers 1 to 3 only, the Layer-3 risks followed by the sentiment risks,
\* and sentiment_result = MAJOR_NEGATIVE.
C5_SentimentVeto ==
    (Analyzed /\ BullAlignment /\ WithinBias
       /\ ~inp.news.isNone /\ inp.news.text # <<>> /\ VetoCondition)
    => LET r == res[1]
           config == MARKET_CONFIG[r.market_type]
           aux == _check_auxiliary_indicators(inp.df, r, 70, config)
           n == Len(aux.risks)
       IN /\ r.buy_signal = "WAIT"
          /\ r.signal_score = aux.score
          /\ Len(r.signal_reasons) = 2 + Len(aux.reasons)
          /\ SubSeq(r.signal_reasons, 3, Len(r.signal_reasons)) = aux.reasons
          /\ Tags(r.signal_reasons) \cap Layer4Tags = {}
          /\ Len(r.risk_factors) > n
          /\ SubSeq(r.risk_factors, 1, n) = aux.risks
          /\ r.risk_factors[n + 1].tag = "sentiment_major_negative"
          /\ \A k \in (n + 2)..Len(r.risk_factors) :
                r.risk_factors[k].tag = "sentiment_keyword"
          /\ r.sentiment_check
          /\ r.sentiment_result = "MAJOR_NEGATIVE"
          /\ r.sentiment_score = 0

\* C5 witness: three moderate negatives together with a strong positive
\* veto an input that earned Layer-3 bonuses and a Layer-3 risk.
C5_Witness ==
    /\ Analyzed /\ BullAlignment /\ WithinBias
    /\ ~inp.news.isNone /\ VetoCondition
    /\ Cardinality(NegativesInNews) = 3
    /\ Contains(inp.news.text, <<"U56DE", "U8D2D">>)
    /\ res[1].buy_signal = "WAIT"
    /\ res[1].signal_score >= 80
    /\ Len(res[1].risk_factors) >= 2
    /\ res[1].risk_factors[1].tag = "atr_too_high"

(***************************************************************************)
(*                  Properties of the circuit breaker                      *)
(***************************************************************************)

\* The step enters CircuitBreaker.call.
CallStep == calls' = calls + 1

\* The step is the end of a call whose protected function returned / raised.
SuccessStep == pc = "in_func" /\ pc' = "idle" /\ outcome' = "success"

FailureStep == pc = "in_func" /\ pc' = "idle" /\ outcome' = "failure"

\* The step raises CircuitBreakerOpenError without entering the function.
RejectedStep ==
    /\ CallStep
    /\ outcome' = "rejected"
    /\ pc' = "idle"
    /\ invocations' = invocations

\* The step is CircuitBreaker.reset.
ResetStep == pc = "idle" /\ calls' = 0 /\ outcome' = "none"

\* The cool-down has not elapsed.
BeforeTimeout == now - last_failure_time < timeout

\* C6: from a fresh breaker, after exactly failure_threshold calls that all
\* failed the breaker is OPEN, and a call entered while the breaker is OPEN
\* and the timeout has not elapsed is rejected without the function being
\* entered; after fewer failing calls the breaker is CLOSED and the next
\* call enters the function.
C6_OpensAfterKFailures ==
    /\ []((pc = "idle" /\ only_failures /\ calls = failure_threshold)
            => state = "OPEN")
    /\ []((pc = "idle" /\ only_failures /\ calls < failure_threshold)
            => state = "CLOSED")
    /\ [][(only_failures /\ calls < failure_threshold /\ CallStep)
            => (pc' = "in_func" /\ invocations' = invocations + 1)]_vars
    /\ [][(only_failures /\ calls = failure_threshold /\ BeforeTimeout /\ CallStep)
            => RejectedStep]_vars

\* C6 witness: a breaker with a threshold of at least 2 rejected the call
\* that followed its threshold-th failure.
C6_Witness ==
    /\ failure_threshold >= 2
    /\ calls = failure_threshold + 1
    /\ invocations = failure_threshold
    /\ failure_count = failure_threshold
    /\ outcome = "rejected"
    /\ state = "OPEN"

\* C7: a call on an OPEN breaker is admitted, through HALF_OPEN with
\* half_open_calls = 0 and into the function, iff now - last_failure_time >=
\* timeout; otherwise it is rejected and state, failure_count, success_count
\* and last_failure_time are unchanged.  An OPEN breaker always has a
\* last_failure_time, not in the future, so the cool-down does elapse.
C7_OpenAdmitsAfterTimeout ==
    /\ [](state = "OPEN" =>
            (last_failure_time # NoTime /\ last_failure_time <= now))
    /\ [][(state = "OPEN" /\ CallStep) =>
            IF now - last_failure_time >= timeout
            THEN /\ state' = "HALF_OPEN"
                 /\ half_open_calls' = 0
                 /\ pc' = "in_func"
                 /\ invocations' = invocations + 1
            ELSE /\ RejectedStep
                 /\ UNCHANGED <<state, failure_count, success_count,
                                last_failure_time>>]_vars

\* C7 witness: a breaker with a positive timeout, re-opened by a failed
\* HALF_OPEN episode, has admitted a call once the timeout had elapsed.
C7_Witness ==
    /\ timeout >= 1
    /\ state = "HALF_OPEN"
    /\ half_open_calls = 0
    /\ episode_successes = 0
    /\ pc = "in_func"
    /\ now - last_failure_time >= timeout
    /\ failure_count > failure_threshold

\* C8: a failing call in HALF_OPEN moves the breaker to OPEN and sets
\* last_failure_time to the time of the failure, however many calls of the
\* episode succeeded before; a call entered after it before the new timeout
\* is rejected without the function being entered.
C8_HalfOpenFailureReopens ==
    /\ [][(state = "HALF_OPEN" /\ FailureStep) =>
            (state' = "OPEN" /\ last_failure_time' = now)]_vars
    /\ [][(state = "OPEN" /\ outcome = "failure" /\ BeforeTimeout /\ CallStep)
            => (RejectedStep /\ state' = "OPEN")]_vars

\* C8 witness: a HALF_OPEN episode with at least one success ended in a
\* failure, and the call after it was rejected.
C8_Witness ==
    /\ state = "OPEN"
    /\ episode_successes >= 1
    /\ episode_successes < half_open_max_calls
    /\ outcome = "rejected"
    /\ last_failure_time > 0
    /\ failure_count = failure_threshold + 1

\* C9: in HALF_OPEN the end of a call closes the breaker exactly when the
\* call succeeded and is the half_open_max_calls-th success of the episode;
\* failure_count and success_count are then 0; no other step of a call
\* closes a HALF_OPEN breaker.
C9_HalfOpenClosesOnNthSuccess ==
    /\ [][(state = "HALF_OPEN" /\ pc = "in_func" /\ pc' = "idle") =>
            /\ state' = "CLOSED" <=>
                  (outcome' = "success" /\ episode_successes' = half_open_max_calls)
            /\ state' = "CLOSED" => (failure_count' = 0 /\ success_count' = 0)]_vars
    /\ [][(state = "HALF_OPEN" /\ state' = "CLOSED") =>
            (SuccessStep \/ ResetStep)]_vars
    /\ [](state = "HALF_OPEN" => episode_successes < half_open_max_calls)

\* C9 witness: an episode of a breaker with half_open_max_calls >= 2 was
\* closed by its last success.
C9_Witness ==
    /\ half_open_max_calls >= 2
    /\ state = "CLOSED"
    /\ outcome = "success"
    /\ episode_successes = half_open_max_calls
    /\ last_failure_time # NoTime
    /\ failure_count = 0
    /\ success_count = 0

FetchOthersIdle ==
    AnalyzerIdle /\ BreakerDefault /\ RetryIdle /\ CacheIdle /\
    StorageIdle /\ ContextIdle /\ NotifyIdle /\ BreakerThreadsIdle /\
    CacheThreadsIdle /\ WorkersIdle /\ SingletonIdle /\ BaseFetcherIdle /\
    ValidatorIdle

RetryOthersIdle ==
    AnalyzerIdle /\ BreakerDefault /\ FetchIdle /\ CacheIdle /\
    StorageIdle /\ ContextIdle /\ NotifyIdle /\ BreakerThreadsIdle /\
    CacheThreadsIdle /\ WorkersIdle /\ SingletonIdle /\ BaseFetcherIdle /\
    ValidatorIdle

CacheOthersIdle ==
    AnalyzerIdle /\ BreakerDefault /\ FetchIdle /\ RetryIdle /\
    StorageIdle /\ ContextIdle /\ NotifyIdle /\ BreakerThreadsIdle /\
    CacheThreadsIdle /\ WorkersIdle /\ SingletonIdle /\ BaseFetcherIdle /\
    ValidatorIdle

StorageOthersIdle ==
    AnalyzerIdle /\ BreakerDefault /\ FetchIdle /\ RetryIdle /\
    CacheIdle /\ ContextIdle /\ NotifyIdle /\ BreakerThreadsIdle /\
    CacheThreadsIdle /\ WorkersIdle /\ SingletonIdle /\ BaseFetcherIdle /\
    ValidatorIdle

ContextOthersIdle ==
    AnalyzerIdle /\ BreakerDefault /\ FetchIdle /\ RetryIdle /\
    CacheIdle /\ NotifyIdle /\ BreakerThreadsIdle /\ CacheThreadsIdle /\
    WorkersIdle /\ SingletonIdle /\ BaseFetcherIdle /\ ValidatorIdle

NotifyOthersIdle ==
    AnalyzerIdle /\ BreakerDefault /\ FetchIdle /\ RetryIdle /\
    CacheIdle /\ StorageIdle /\ ContextIdle /\ BreakerThreadsIdle /\
    CacheThreadsIdle /\ WorkersIdle /\ SingletonIdle /\ BaseFetcherIdle /\
    ValidatorIdle

BreakerThreadOthersIdle ==
    AnalyzerIdle /\ FetchIdle /\ RetryIdle /\ CacheIdle /\ StorageIdle /\
    ContextIdle /\ NotifyIdle /\ CacheThreadsIdle /\ WorkersIdle /\
    SingletonIdle /\ BaseFetcherIdle /\ ValidatorIdle

CacheThreadOthersIdle ==
    AnalyzerIdle /\ BreakerDefault /\ FetchIdle /\ RetryIdle /\
    StorageIdle /\ ContextIdle /\ NotifyIdle /\ BreakerThreadsIdle /\
    WorkersIdle /\ SingletonIdle /\ BaseFetcherIdle /\ ValidatorIdle

WorkerOthersIdle ==
    AnalyzerIdle /\ BreakerDefault /\ FetchIdle /\ RetryIdle /\
    CacheIdle /\ ContextIdle /\ NotifyIdle /\ BreakerThreadsIdle /\
    CacheThreadsIdle /\ SingletonIdle /\ BaseFetcherIdle /\ ValidatorIdle

SingletonOthersIdle ==
    AnalyzerIdle /\ BreakerDefault /\ FetchIdle /\ RetryIdle /\
    CacheIdle /\ StorageIdle /\ ContextIdle /\ NotifyIdle /\
    BreakerThreadsIdle /\ CacheThreadsIdle /\ WorkersIdle /\
    BaseFetcherIdle /\ ValidatorIdle

BaseFetcherOthersIdle ==
    AnalyzerIdle /\ BreakerDefault /\ FetchIdle /\ RetryIdle /\
    CacheIdle /\ StorageIdle /\ ContextIdle /\ NotifyIdle /\
    BreakerThreadsIdle /\ CacheThreadsIdle /\ WorkersIdle /\
    SingletonIdle /\ ValidatorIdle

ValidatorOthersIdle ==
    AnalyzerIdle /\ BreakerDefault /\ FetchIdle /\ RetryIdle /\
    CacheIdle /\ StorageIdle /\ ContextIdle /\ NotifyIdle /\
    BreakerThreadsIdle /\ CacheThreadsIdle /\ WorkersIdle /\
    SingletonIdle /\ BaseFetcherIdle

(***************************************************************************)
(*                   Fetch manager: DataFetcherManager                     *)
(***************************************************************************)

\* BaseFetcher.priority of the fetchers handed to the manager
Priorities == {0, 1}

\* A fetcher, by its class attributes name and priority.
Fetcher == [name : FetcherNames, priority : Priorities]

\* The lists a manager can be built from: fetchers with distinct names.
FetcherLists ==
    {fs \in UNION {[1..n -> Fetcher] : n \in 0..Cardinality(FetcherNames)} :
        \A i, j \in DOMAIN fs : i # j => fs[i].name # fs[j].name}

\* One step of sorted(): f goes behind every element whose key is not
\* larger, so elements with equal keys keep their order.
InsertByPriority(s, f) ==
    LET k == Cardinality({i \in 1..Len(s) : s[i].priority <= f.priority})
    IN  SubSeq(s, 1, k) \o <<f>> \o SubSeq(s, k + 1, Len(s))

RECURSIVE SortPrefix(_, _)
SortPrefix(fs, n) ==
    IF n = 0 THEN <<>> ELSE InsertByPriority(SortPrefix(fs, n - 1), fs[n])

\* Faulty variant of sorted_by_priority: the list is kept as given.
sorted_as_given(fs) == fs

\* sorted(fetchers, key=lambda x: x.priority)
sorted_by_priority(fs) == SortPrefix(fs, Len(fs))

\* A DataFrame, by the fetcher it came from and its number of rows.
DataFrame(source, rows) == <<"DataFrame", source, rows>>

\* df.empty
empty(df) == df[3] = 0

\* What fetcher.get_daily_data can hand back: a frame with rows, a frame
\* without rows, or None.
ReturnKinds == {"frame", "empty", "None"}

Returned(kind, name) ==
    CASE kind = "frame" -> DataFrame(name, 1)
      [] kind = "empty" -> DataFrame(name, 0)
      [] OTHER -> None

\* What fetcher.get_daily_data can raise: DataFetchError, another
\* Exception, or a BaseException that is not an Exception.
RaiseKinds == {"DataFetchError", "ValueError", "KeyboardInterrupt"}

\* The two except clauses of the loop: DataFetchError and Exception.
caught_by_manager(e) == e \in {"DataFetchError", "ValueError"}

\* DataFetcherManager.__init__
FetchInit ==
    /\ \E fs \in FetcherLists : fetchers = sorted_by_priority(fs)
    /\ breaker_state = [n \in FetcherNames |-> "CLOSED"]
    /\ mgr_pc = "idle"
    /\ mgr_idx = 0
    /\ last_error = None
    /\ tried = <<>>
    /\ mgr_result = <<"none">>

\* get_daily_data up to the first fetcher.get_daily_data (lines 393-399);
\* with no fetcher the loop body never runs and line 424 returns.
GetDailyEnter ==
    /\ mgr_pc = "idle"
    /\ last_error' = None
    /\ tried' = <<>>
    /\ IF Len(fetchers) = 0
       THEN /\ mgr_result' = <<"return", None, None>>
            /\ UNCHANGED <<mgr_pc, mgr_idx>>
       ELSE /\ mgr_pc' = "in_fetcher"
            /\ mgr_idx' = 1
            /\ mgr_result' = <<"pending">>
    /\ UNCHANGED <<fetchers, breaker_state>>
    /\ UNCHANGED nonFetchVars

\* The loop moves to the next fetcher, or falls off the list and
\* returns (None, None) (lines 421-424).
NextFetcher ==
    IF mgr_idx < Len(fetchers)
    THEN /\ mgr_idx' = mgr_idx + 1
         /\ UNCHANGED <<mgr_pc, mgr_result>>
    ELSE /\ mgr_result' = <<"return", None, None>>
         /\ mgr_pc' = "idle"
         /\ UNCHANGED mgr_idx

\* fetcher.get_daily_data returns (lines 399-410).
FetcherReturns ==
    /\ mgr_pc = "in_fetcher"
    /\ \E kind \in ReturnKinds :
          LET fetcher == fetchers[mgr_idx]
              df == Returned(kind, fetcher.name)
          IN  /\ tried' = Append(tried, [name |-> fetcher.name, outcome |-> kind])
              /\ IF df # None /\ ~empty(df)
                 THEN /\ mgr_result' = <<"return", df, Str(fetcher.name)>>
                      /\ mgr_pc' = "idle"
                      /\ UNCHANGED mgr_idx
                 ELSE NextFetcher
    /\ UNCHANGED <<fetchers, breaker_state, last_error>>
    /\ UNCHANGED nonFetchVars

\* fetcher.get_daily_data raises (lines 412-419); what neither except
\* clause catches leaves get_daily_data.
FetcherRaises ==
    /\ mgr_pc = "in_fetcher"
    /\ \E e \in RaiseKinds :
          LET fetcher == fetchers[mgr_idx]
          IN  /\ tried' = Append(tried, [name |-> fetcher.name, outcome |-> e])
              /\ IF caught_by_manager(e)
                 THEN /\ last_error' = Exc(e)
                      /\ NextFetcher
                 ELSE /\ mgr_result' = <<"raise", Exc(e)>>
                      /\ mgr_pc' = "idle"
                      /\ UNCHANGED <<mgr_idx, last_error>>
    /\ UNCHANGED <<fetchers, breaker_state>>
    /\ UNCHANGED nonFetchVars

\* The breaker of a fetcher is driven by whoever calls the source through
\* it; the manager takes no part in these three steps.
BreakerOpens ==
    /\ \E n \in FetcherNames :
          /\ breaker_state[n] \in {"CLOSED", "HALF_OPEN"}
          /\ breaker_state' = [breaker_state EXCEPT ![n] = "OPEN"]
    /\ UNCHANGED <<fetchers, mgr_pc, mgr_idx, last_error, tried, mgr_result>>
    /\ UNCHANGED nonFetchVars

BreakerHalfOpens ==
    /\ \E n \in FetcherNames :
          /\ breaker_state[n] = "OPEN"
          /\ breaker_state' = [breaker_state EXCEPT ![n] = "HALF_OPEN"]
    /\ UNCHANGED <<fetchers, mgr_pc, mgr_idx, last_error, tried, mgr_result>>
    /\ UNCHANGED nonFetchVars

BreakerCloses ==
    /\ \E n \in FetcherNames :
          /\ breaker_state[n] = "HALF_OPEN"
          /\ breaker_state' = [breaker_state EXCEPT ![n] = "CLOSED"]
    /\ UNCHANGED <<fetchers, mgr_pc, mgr_idx, last_error, tried, mgr_result>>
    /\ UNCHANGED nonFetchVars

NextFetch ==
    \/ GetDailyEnter
    \/ FetcherReturns
    \/ FetcherRaises
    \/ BreakerOpens
    \/ BreakerHalfOpens
    \/ BreakerCloses

InitFetch == FetchInit /\ FetchOthersIdle

SpecFetch == InitFetch /\ [][NextFetch]_vars

(***************************************************************************)
(*                    Properties of the fetch manager                      *)
(***************************************************************************)

\* The fetcher neither produced rows nor left get_daily_data.
Failed(o) == o \in {"empty", "None", "DataFetchError", "ValueError"}

\* A call of get_daily_data has ended.
CallEnded == mgr_pc = "idle" /\ mgr_result[1] \in {"return", "raise"}

\* C11: within one call the fetchers are invoked in the order of the
\* manager's list, which ascends by priority, each at most once; a fetcher
\* that raises an Exception or returns None or an empty frame sends the loop
\* to the next fetcher and the call does not raise; the first fetcher that
\* returns rows ends the call, which returns that frame and that fetcher's
\* name, so no fetcher behind it is invoked.
C11_FailoverInPriorityOrder ==
    /\ Len(tried) <= Len(fetchers)
    /\ \A i \in 1..Len(tried) : tried[i].name = fetchers[i].name
    /\ \A i, j \in 1..Len(tried) : i # j => tried[i].name # tried[j].name
    /\ \A i, j \in 1..Len(fetchers) :
          i < j => fetchers[i].priority <= fetchers[j].priority
    /\ \A i \in 1..Len(tried) :
          /\ i < Len(tried) => Failed(tried[i].outcome)
          /\ tried[i].outcome = "frame" =>
                /\ i = Len(tried)
                /\ mgr_pc = "idle"
                /\ mgr_result = <<"return", DataFrame(fetchers[i].name, 1),
                                  Str(fetchers[i].name)>>
          /\ (Failed(tried[i].outcome) /\ i = Len(tried)) =>
                /\ mgr_result[1] # "raise"
                /\ i < Len(fetchers) => (mgr_pc = "in_fetcher" /\ mgr_idx = i + 1)

\* C11 witness: the preferred fetcher raised, the second returned rows and
\* ended the call, and a third, less preferred fetcher was left alone.
C11_Witness ==
    /\ Len(fetchers) = 3
    /\ fetchers[1].priority < fetchers[3].priority
    /\ Len(tried) = 2
    /\ tried[1].outcome = "DataFetchError"
    /\ tried[2].outcome = "frame"
    /\ mgr_result = <<"return", DataFrame(fetchers[2].name, 1),
                      Str(fetchers[2].name)>>

\* C12: when every configured fetcher raised or returned no rows, the call
\* returns a null series and the empty string as source name.
C12_AllFailReturnsEmptyName ==
    (/\ CallEnded
     /\ Len(fetchers) >= 1
     /\ Len(tried) = Len(fetchers)
     /\ \A i \in 1..Len(tried) : Failed(tried[i].outcome))
    => mgr_result = <<"return", None, Str("")>>

\* The step in which get_daily_data invokes a fetcher.
InvokesFetcher ==
    /\ mgr_pc' = "in_fetcher"
    /\ mgr_pc = "idle" \/ mgr_idx' # mgr_idx

\* C13: get_daily_data does not invoke a fetcher whose breaker is OPEN.
C13_OpenFetcherSkipped ==
    [][InvokesFetcher => breaker_state[fetchers[mgr_idx'].name] # "OPEN"]_vars

(***************************************************************************)
(*                       Retry helper: RetryHelper                         *)
(***************************************************************************)

\* Largest max_attempts of a helper
MaxAttempts == 3

\* The classes an exception of class e is an instance of.
Bases(e) ==
    CASE e = "ValueError" -> {"ValueError", "Exception", "BaseException"}
      [] e = "TypeError" -> {"TypeError", "Exception", "BaseException"}
      [] e = "KeyError" -> {"KeyError", "LookupError", "Exception", "BaseException"}
      [] e = "KeyboardInterrupt" -> {"KeyboardInterrupt", "BaseException"}

\* isinstance(exception, classes) for a tuple of classes
isinstance(e, classes) == Bases(e) \cap classes # {}

\* A Python tuple of classes.
Tuple(classes) == <<"tuple", classes>>

\* Truth value of self.retry_exceptions: None and () are false.
Truthy(t) == t # None /\ t[2] # {}

\* What the function does on one invocation.
FuncOutcomes ==
    {<<"return", "v1">>, <<"return", "v2">>, <<"raise", "ValueError">>,
     <<"raise", "TypeError">>, <<"raise", "KeyError">>,
     <<"raise", "KeyboardInterrupt">>}

RetryExceptionChoices ==
    {None, Tuple({}), Tuple({"ValueError"}), Tuple({"LookupError"}),
     Tuple({"ValueError", "TypeError"})}

\* on_retry: no callback, one that returns, one that raises an Exception.
OnRetryChoices == {None, Str("returns"), Str("raises")}

\* RetryHelper.__init__, and the function run is about to be given.
RetryInit ==
    /\ max_attempts \in 0..MaxAttempts
    /\ retry_exceptions \in RetryExceptionChoices
    /\ on_retry \in OnRetryChoices
    /\ func_plan \in [1..MaxAttempts -> FuncOutcomes]
    /\ attempt = 0
    /\ retry_pc = "idle"
    /\ func_invocations = 0
    /\ sleeps = 0
    /\ on_retry_calls = 0
    /\ last_exception = None
    /\ run_result = <<"none">>

\* Faulty variant of _should_retry: never retries.
_should_retry_never(exception, attempt_) == FALSE

\* Faulty variant of _should_retry: gives up one attempt early.
_should_retry_early(exception, attempt_) ==
    IF Truthy(retry_exceptions) /\ ~isinstance(exception, retry_exceptions[2])
    THEN FALSE
    ELSE IF attempt_ + 1 >= max_attempts THEN FALSE ELSE TRUE

\* Faulty variant of _should_retry: the class of the exception is ignored.
_should_retry_any_class(exception, attempt_) ==
    IF attempt_ >= max_attempts THEN FALSE ELSE TRUE

\* RetryHelper._should_retry
_should_retry(exception, attempt_) ==
    IF Truthy(retry_exceptions) /\ ~isinstance(exception, retry_exceptions[2])
    THEN FALSE
    ELSE IF attempt_ >= max_attempts THEN FALSE ELSE TRUE

\* run up to the first invocation of func (lines 73-77); range(1, 1) is
\* empty, and run then ends at line 125 with last_exception None and
\* returns None.
RunEnter ==
    /\ retry_pc = "idle"
    /\ last_exception' = None
    /\ IF max_attempts >= 1
       THEN /\ attempt' = 1
            /\ retry_pc' = "in_func"
            /\ UNCHANGED run_result
       ELSE /\ run_result' = <<"return", None>>
            /\ retry_pc' = "done"
            /\ UNCHANGED attempt
    /\ UNCHANGED <<max_attempts, retry_exceptions, on_retry, func_plan,
                   func_invocations, sleeps, on_retry_calls>>
    /\ UNCHANGED nonRetryVars

\* func returns (lines 77-85).
RunFuncReturns ==
    /\ retry_pc = "in_func"
    /\ func_plan[func_invocations + 1][1] = "return"
    /\ func_invocations' = func_invocations + 1
    /\ run_result' = <<"return", Str(func_plan[func_invocations + 1][2])>>
    /\ retry_pc' = "done"
    /\ UNCHANGED <<max_attempts, retry_exceptions, on_retry, func_plan, attempt,
                   sleeps, on_retry_calls, last_exception>>
    /\ UNCHANGED nonRetryVars

\* func raises (lines 87-122, and 124-126 when the loop is over).  What
\* is not an Exception passes the except clause.  An exception raised by
\* the callback is caught at line 112.
RunFuncRaises ==
    /\ retry_pc = "in_func"
    /\ func_plan[func_invocations + 1][1] = "raise"
    /\ func_invocations' = func_invocations + 1
    /\ LET e == func_plan[func_invocations + 1][2]
       IN  IF "Exception" \notin Bases(e)
           THEN /\ run_result' = <<"raise", Exc(e)>>
                /\ retry_pc' = "done"
                /\ UNCHANGED <<last_exception, on_retry_calls>>
           ELSE /\ last_exception' = Exc(e)
                /\ IF ~_should_retry(e, attempt)
                   THEN /\ run_result' = <<"raise", Exc(e)>>
                        /\ retry_pc' = "done"
                        /\ UNCHANGED on_retry_calls
                   ELSE IF attempt < max_attempts
                        THEN /\ on_retry_calls' = IF on_retry # None
                                                  THEN on_retry_calls + 1
                                                  ELSE on_retry_calls
                             /\ retry_pc' = "sleeping"
                             /\ UNCHANGED run_result
                        ELSE /\ run_result' = <<"raise", Exc(e)>>
                             /\ retry_pc' = "done"
                             /\ UNCHANGED on_retry_calls
    /\ UNCHANGED <<max_attempts, retry_exceptions, on_retry, func_plan, attempt,
                   sleeps>>
    /\ UNCHANGED nonRetryVars

\* time.sleep(delay) returns and the loop starts the next attempt
\* (line 118, then line 75).
SleepReturns ==
    /\ retry_pc = "sleeping"
    /\ sleeps' = sleeps + 1
    /\ attempt' = attempt + 1
    /\ retry_pc' = "in_func"
    /\ UNCHANGED <<max_attempts, retry_exceptions, on_retry, func_plan,
                   func_invocations, on_retry_calls, last_exception, run_result>>
    /\ UNCHANGED nonRetryVars

NextRetry == RunEnter \/ RunFuncReturns \/ RunFuncRaises \/ SleepReturns

InitRetry == RetryInit /\ RetryOthersIdle

SpecRetry == InitRetry /\ [][NextRetry]_vars

(***************************************************************************)
(*                     Properties of the retry helper                      *)
(***************************************************************************)

\* The k-th invocation raises an exception that the helper is configured
\* to retry.
RaisesRetryable(k) ==
    /\ func_plan[k][1] = "raise"
    /\ "Exception" \in Bases(func_plan[k][2])
    /\ Truthy(retry_exceptions) => isinstance(func_plan[k][2], retry_exceptions[2])

\* The k-th invocation raises an exception outside retry_exceptions.
RaisesOther(k) ==
    /\ func_plan[k][1] = "raise"
    /\ Truthy(retry_exceptions)
    /\ ~isinstance(func_plan[k][2], retry_exceptions[2])

\* The function fails its first k-1 invocations with retryable
\* exceptions and returns on the k-th.
FailsThenReturns(k) ==
    /\ \A i \in 1..(k - 1) : RaisesRetryable(i)
    /\ func_plan[k][1] = "return"

\* C14: a function that raises retryable exceptions on its first k-1
\* invocations and returns v on the k-th, for any k up to max_attempts
\* (k = max_attempts and k = 1 are the two cases of the claim), makes run
\* return v after exactly k invocations and k-1 sleeps.
C14_ReturnsOnNthAttempt ==
    \A k \in 1..MaxAttempts :
        (retry_pc = "done" /\ k <= max_attempts /\ FailsThenReturns(k)) =>
            /\ run_result = <<"return", Str(func_plan[k][2])>>
            /\ func_invocations = k
            /\ sleeps = k - 1

\* C14 witness: max_attempts = 3, two retryable failures, success on the
\* third invocation after two sleeps.
C14_Witness ==
    /\ retry_pc = "done"
    /\ max_attempts = 3
    /\ FailsThenReturns(3)
    /\ run_result = <<"return", Str(func_plan[3][2])>>
    /\ sleeps = 2

\* The function raises a retryable exception on every invocation run can
\* make.
AlwaysRaisesRetryable == \A i \in 1..max_attempts : RaisesRetryable(i)

\* C15: when every invocation raises a retryable exception, run invokes
\* the function max_attempts times, sleeps max_attempts - 1 times, each
\* sleep being followed by another invocation, and raises the exception of
\* the last invocation.
C15_ExhaustionRaisesLast ==
    (max_attempts >= 1 /\ AlwaysRaisesRetryable) =>
        /\ retry_pc = "sleeping" => func_invocations < max_attempts
        /\ sleeps <= max_attempts - 1
        /\ retry_pc = "done" =>
              /\ func_invocations = max_attempts
              /\ sleeps = max_attempts - 1
              /\ run_result = <<"raise", Exc(func_plan[max_attempts][2])>>

\* C15 witness: three attempts, three different retryable exceptions, the
\* third one raised after two sleeps.
C15_Witness ==
    /\ retry_pc = "done"
    /\ max_attempts = 3
    /\ AlwaysRaisesRetryable
    /\ func_plan[1][2] # func_plan[3][2]
    /\ func_plan[2][2] # func_plan[3][2]
    /\ func_invocations = 3
    /\ sleeps = 2

MaxCacheTime == 2

\* Number of cache operations in a run
MaxCacheOps == 3

\* A Python int.
PyInt(n) == <<"int", n>>

\* cache_data = {'timestamp': ..., 'ttl': ..., 'value': ...}
Entry(timestamp, ttl, value) == <<"entry", timestamp, ttl, value>>

timestamp_of(e) == e[2]

ttl_of(e) == e[3]

value_of(e) == e[4]

\* A file that pickle.load cannot read.
Corrupt == <<"corrupt">>

\* A file of cache_dir: what pickle.load makes of it, and its st_mtime.
File(content, mtime) == <<"file", content, mtime>>

content_of(f) == f[2]

mtime_of(f) == f[3]

\* The values stored, and the size of the file pickle.dump writes for an
\* entry holding each; a write that failed leaves an empty file.
CacheValues == {None, Str("v")}

st_size(f) ==
    CASE f = Absent -> 0
      [] content_of(f) = Corrupt -> 0
      [] value_of(content_of(f)) = None -> 1
      [] OTHER -> 2

\* The ttl arguments of get and set: left out, or a number of seconds.
TtlArgs == {None, PyInt(1)}

\* ttl or self.default_ttl
ttl_or_default(ttl) == IF ttl = None \/ ttl = PyInt(0) THEN default_ttl ELSE ttl[2]

\* How open(cache_file, 'wb') and pickle.dump can end: both succeed, open
\* raises (the file is as before), or dump raises (the file was truncated).
WriteOutcomes == {"written", "open_raises", "dump_raises"}

\* CacheManager.__init__ on an empty directory
CacheInit ==
    /\ default_ttl = 2
    /\ max_cache_size \in {2, 100}
    /\ _memory_cache = [k \in Keys |-> Absent]
    /\ _stats = [hits |-> 0, misses |-> 0, sets |-> 0, deletes |-> 0]
    /\ cache_files = [f \in FileNames |-> Absent]
    /\ cache_now = 0
    /\ cache_ops = 0
    /\ last_op = <<"none">>
    /\ get_return = None
    /\ written = [k \in Keys |-> Absent]

\* time.time() - cache_data['timestamp'] <= ttl
fresh(e, ttl) == cache_now - timestamp_of(e) <= ttl

\* Faulty variant of CacheGet: a get that finds a file it cannot read
\* returns None without counting a miss.
CacheGet_unreadable_uncounted ==
    /\ cache_ops < MaxCacheOps
    /\ cache_ops' = cache_ops + 1
    /\ \E key \in Keys, ttl_arg \in TtlArgs :
          LET ttl == ttl_or_default(ttl_arg)
              in_memory == _memory_cache[key] # Absent
              cache_file == _get_cache_file(key)
              on_disk == cache_files[cache_file]
              readable == on_disk # Absent /\ content_of(on_disk) # Corrupt
              unreadable == on_disk # Absent /\ content_of(on_disk) = Corrupt
          IN  /\ last_op' = <<"get", key>>
              /\ IF in_memory /\ fresh(_memory_cache[key], ttl)
                 THEN /\ _stats' = [_stats EXCEPT !.hits = @ + 1]
                      /\ get_return' = value_of(_memory_cache[key])
                      /\ UNCHANGED <<_memory_cache, cache_files>>
                 ELSE IF readable /\ fresh(content_of(on_disk), ttl)
                 THEN /\ _memory_cache' =
                            [_memory_cache EXCEPT ![key] = content_of(on_disk)]
                      /\ _stats' = [_stats EXCEPT !.hits = @ + 1]
                      /\ get_return' = value_of(content_of(on_disk))
                      /\ UNCHANGED cache_files
                 ELSE /\ _memory_cache' = [_memory_cache EXCEPT ![key] = Absent]
                      /\ cache_files' = IF readable
                                        THEN [cache_files EXCEPT ![cache_file] = Absent]
                                        ELSE cache_files
                      /\ _stats' = [_stats EXCEPT
                                       !.deletes = IF readable THEN @ + 1 ELSE @,
                                       !.misses = IF unreadable THEN @ ELSE @ + 1]
                      /\ get_return' = None
    /\ UNCHANGED <<default_ttl, max_cache_size, cache_now, written>>
    /\ UNCHANGED nonCacheVars

\* CacheManager.get
CacheGet ==
    /\ cache_ops < MaxCacheOps
    /\ cache_ops' = cache_ops + 1
    /\ \E key \in Keys, ttl_arg \in TtlArgs :
          LET ttl == ttl_or_default(ttl_arg)
              in_memory == _memory_cache[key] # Absent
              cache_file == _get_cache_file(key)
              on_disk == cache_files[cache_file]
              readable == on_disk # Absent /\ content_of(on_disk) # Corrupt
          IN  /\ last_op' = <<"get", key>>
              /\ IF in_memory /\ fresh(_memory_cache[key], ttl)
                 THEN /\ _stats' = [_stats EXCEPT !.hits = @ + 1]
                      /\ get_return' = value_of(_memory_cache[key])
                      /\ UNCHANGED <<_memory_cache, cache_files>>
                 ELSE IF readable /\ fresh(content_of(on_disk), ttl)
                 THEN /\ _memory_cache' =
                            [_memory_cache EXCEPT ![key] = content_of(on_disk)]
                      /\ _stats' = [_stats EXCEPT !.hits = @ + 1]
                      /\ get_return' = value_of(content_of(on_disk))
                      /\ UNCHANGED cache_files
                 ELSE /\ _memory_cache' = [_memory_cache EXCEPT ![key] = Absent]
                      /\ cache_files' = IF readable
                                        THEN [cache_files EXCEPT ![cache_file] = Absent]
                                        ELSE cache_files
                      /\ _stats' = [_stats EXCEPT
                                       !.deletes = IF readable THEN @ + 1 ELSE @,
                                       !.misses = @ + 1]
                      /\ get_return' = None
    /\ UNCHANGED <<default_ttl, max_cache_size, cache_now, written>>
    /\ UNCHANGED nonCacheVars

\* sum of f.stat().st_size over the files
RECURSIVE SizeOver(_, _)
SizeOver(files, names) ==
    IF names = {} THEN 0
    ELSE LET n == CHOOSE x \in names : TRUE
         IN  st_size(files[n]) + SizeOver(files, names \ {n})

total_size(files) == SizeOver(files, FileNames)

\* cache_files.sort(key=lambda f: f.stat().st_mtime): the orders the
\* sort can produce; files of equal mtime keep the order of glob, which
\* is any.
MtimeOrders(files) ==
    LET present == {n \in FileNames : files[n] # Absent}
    IN  {o \in [1..Cardinality(present) -> present] :
            /\ \A i, j \in DOMAIN o : i # j => o[i] # o[j]
            /\ \A i, j \in DOMAIN o :
                  i < j => mtime_of(files[o[i]]) <= mtime_of(files[o[j]])}

\* Faulty variant of EvictFrom: stops once the total is within the cap.
RECURSIVE EvictFrom_to_cap(_, _, _)
EvictFrom_to_cap(files, order, i) ==
    IF i > Len(order)
    THEN [files |-> files, deleted |-> 0]
    ELSE LET rest == [files EXCEPT ![order[i]] = Absent]
         IN  IF total_size(rest) <= max_cache_size
             THEN [files |-> rest, deleted |-> 1]
             ELSE LET r == EvictFrom_to_cap(rest, order, i + 1)
                  IN  [files |-> r.files, deleted |-> r.deleted + 1]

\* The loop of lines 220-231: unlink, count, stop below 80% of the cap.
RECURSIVE EvictFrom(_, _, _)
EvictFrom(files, order, i) ==
    IF i > Len(order)
    THEN [files |-> files, deleted |-> 0]
    ELSE LET rest == [files EXCEPT ![order[i]] = Absent]
         IN  IF 10 * total_size(rest) < 8 * max_cache_size
             THEN [files |-> rest, deleted |-> 1]
             ELSE LET r == EvictFrom(rest, order, i + 1)
                  IN  [files |-> r.files, deleted |-> r.deleted + 1]

\* CacheManager._cleanup_if_needed
_cleanup_if_needed(files, order) ==
    IF total_size(files) > max_cache_size
    THEN EvictFrom(files, order, 1)
    ELSE [files |-> files, deleted |-> 0]

\* CacheManager.set, with the _cleanup_if_needed that ends it
CacheSet ==
    /\ cache_ops < MaxCacheOps
    /\ cache_ops' = cache_ops + 1
    /\ \E key \in Keys, value \in CacheValues, ttl_arg \in TtlArgs,
          write \in WriteOutcomes :
          LET cache_data == Entry(cache_now, ttl_or_default(ttl_arg), value)
              cache_file == _get_cache_file(key)
              after_write ==
                  CASE write = "written" ->
                         [cache_files EXCEPT ![cache_file] = File(cache_data, cache_now)]
                    [] write = "dump_raises" ->
                         [cache_files EXCEPT ![cache_file] = File(Corrupt, cache_now)]
                    [] OTHER -> cache_files
          IN  /\ last_op' = <<"set", key>>
              /\ _memory_cache' = [_memory_cache EXCEPT ![key] = cache_data]
              /\ written' = [written EXCEPT ![key] = IF write = "written"
                                                     THEN cache_data ELSE Absent]
              /\ \E order \in MtimeOrders(after_write) :
                    LET cleaned == _cleanup_if_needed(after_write, order)
                    IN  /\ cache_files' = cleaned.files
                        /\ _stats' = [_stats EXCEPT
                                         !.sets = IF write = "written" THEN @ + 1 ELSE @,
                                         !.deletes = @ + cleaned.deleted]
    /\ UNCHANGED <<default_ttl, max_cache_size, cache_now, get_return>>
    /\ UNCHANGED nonCacheVars

\* CacheManager.delete
CacheDelete ==
    /\ cache_ops < MaxCacheOps
    /\ cache_ops' = cache_ops + 1
    /\ \E key \in Keys :
          LET cache_file == _get_cache_file(key)
          IN  /\ last_op' = <<"delete", key>>
              /\ _memory_cache' = [_memory_cache EXCEPT ![key] = Absent]
              /\ cache_files' = [cache_files EXCEPT ![cache_file] = Absent]
              /\ _stats' = [_stats EXCEPT
                               !.deletes = IF cache_files[cache_file] # Absent
                                           THEN @ + 1 ELSE @]
              /\ written' = [written EXCEPT ![key] = Absent]
    /\ UNCHANGED <<default_ttl, max_cache_size, cache_now, get_return>>
    /\ UNCHANGED nonCacheVars

\* CacheManager.clear
CacheClear ==
    /\ cache_ops < MaxCacheOps
    /\ cache_ops' = cache_ops + 1
    /\ last_op' = <<"clear">>
    /\ _memory_cache' = [k \in Keys |-> Absent]
    /\ cache_files' = [f \in FileNames |-> Absent]
    /\ written' = [k \in Keys |-> Absent]
    /\ UNCHANGED <<default_ttl, max_cache_size, _stats, cache_now, get_return>>
    /\ UNCHANGED nonCacheVars

\* A second CacheManager(cache_dir) on the same directory takes over:
\* the files stay, the dict and the counters start empty.
NewManager ==
    /\ cache_ops < MaxCacheOps
    /\ cache_ops' = cache_ops + 1
    /\ last_op' = <<"new">>
    /\ _memory_cache' = [k \in Keys |-> Absent]
    /\ _stats' = [hits |-> 0, misses |-> 0, sets |-> 0, deletes |-> 0]
    /\ UNCHANGED <<default_ttl, max_cache_size, cache_files, cache_now,
                   get_return, written>>
    /\ UNCHANGED nonCacheVars

\* A second passes.
CacheTick ==
    /\ cache_now < MaxCacheTime
    /\ cache_now' = cache_now + 1
    /\ last_op' = <<"tick">>
    /\ UNCHANGED <<default_ttl, max_cache_size, _memory_cache, _stats,
                   cache_files, cache_ops, get_return, written>>
    /\ UNCHANGED nonCacheVars

NextCache ==
    \/ CacheGet
    \/ CacheSet
    \/ CacheDelete
    \/ CacheClear
    \/ NewManager
    \/ CacheTick

InitCache == CacheInit /\ CacheOthersIdle

SpecCache == InitCache /\ [][NextCache]_vars

(***************************************************************************)
(*                    Properties of the cache manager                      *)
(***************************************************************************)

\* The last operation was get(k), and k was set before, its file
\* written, with no delete, clear or set of k since.
GotAfterSet(k) == last_op = <<"get", k>> /\ written[k] # Absent

\* Seconds since that set.
AgeOf(k) == cache_now - timestamp_of(written[k])

\* C17: a get(k) that follows set(k, v), v not None, within the TTL of
\* that set, with no delete, clear or set of k in between, returns v and
\* leaves the entry in the memory tier.
C17_GetWithinTtlReturnsValue ==
    \A k \in Keys :
        (/\ GotAfterSet(k)
         /\ value_of(written[k]) # None
         /\ AgeOf(k) <= ttl_of(written[k]))
        => /\ get_return = value_of(written[k])
           /\ _memory_cache[k] = written[k]

\* C18: a get(k) made more than T seconds after set(k, v, ttl=T) returns
\* None, whatever ttl it passes, and leaves neither the file nor the
\* memory copy.
C18_ExpiresByStoredTtl ==
    \A k \in Keys :
        (GotAfterSet(k) /\ AgeOf(k) > ttl_of(written[k]))
        => /\ get_return = None
           /\ cache_files[_get_cache_file(k)] = Absent
           /\ _memory_cache[k] = Absent

(***************************************************************************)
(*               Storage: DatabaseManager.save_daily_data                  *)
(***************************************************************************)

\* Number of calls of save_daily_data in a run
MaxSaves == 3

\* Largest number of rows of a DataFrame passed to save_daily_data
MaxRows == 2

\* A value of column date that the Date column can bind, and pandas' NaT,
\* which it cannot (the statement raises StatementError).
PyDate(d) == <<"date", d>>

NaT == <<"NaT">>

StockCodes == {"600519", "000001"}

BindableDates == {PyDate(1), PyDate(2)}

Closes == {10, 11}

Sources == {"AkshareFetcher"}

\* A row of the DataFrame; close stands for the sixteen payload columns,
\* which save_daily_data copies the same way.
DfRow(date, close) == [date |-> date, close |-> close]

DfRows == {DfRow(d, c) : d \in BindableDates \cup {NaT}, c \in Closes}

\* The DataFrames passed to save_daily_data
DataFrames == UNION {[1..n -> DfRows] : n \in 0..MaxRows}

\* A StockDaily record; created_at and updated_at are left out.
StockDaily(code, date, close, data_source) ==
    [code |-> code, date |-> date, close |-> close, data_source |-> data_source]

\* UniqueConstraint('code', 'date', name='uix_code_date')
uix_code_date(rows) ==
    \A i, j \in 1..Len(rows) :
        (rows[i].code = rows[j].code /\ rows[i].date = rows[j].date) => i = j

\* select(StockDaily).where(and_(StockDaily.code == code,
\* StockDaily.date == date)), run on the committed rows (autoflush=False:
\* the pending records are not flushed first): the positions that match.
select_where(code, date) ==
    {i \in 1..Len(stock_daily) :
        stock_daily[i].code = code /\ stock_daily[i].date = date}

\* session.rollback(): the pending records are expunged and the loaded rows
\* are expired, so they read as committed again.
rollback == [new |-> <<>>, loaded |-> stock_daily]

\* DatabaseManager.__init__ on a new database
StorageInit ==
    /\ stock_daily = <<>>
    /\ identity_map = <<>>
    /\ session_new = <<>>
    /\ save_df = <<>>
    /\ save_code = ""
    /\ save_source = ""
    /\ save_idx = 0
    /\ saved_count = 0
    /\ save_result = <<"none">>
    /\ save_calls = 0
    /\ row_outcomes = <<>>
    /\ rows_at_entry = <<>>
    /\ same_series = FALSE

\* The dates of a DataFrame, in row order
DatesOf(df) == [i \in 1..Len(df) |-> df[i].date]

\* save_daily_data is called: df.empty returns 0 at once, otherwise a
\* session is opened and the loop begins.
SaveEnter ==
    /\ save_idx = 0
    /\ save_calls < MaxSaves
    /\ save_calls' = save_calls + 1
    /\ \E df \in DataFrames, code \in StockCodes, data_source \in Sources :
          /\ save_df' = df
          /\ save_code' = code
          /\ save_source' = data_source
          /\ same_series' = (/\ save_calls > 0
                             /\ code = save_code
                             /\ DatesOf(df) = DatesOf(save_df))
          /\ IF df = <<>>
             THEN /\ save_idx' = 0
                  /\ save_result' = <<"return", PyInt(0)>>
             ELSE /\ save_idx' = 1
                  /\ save_result' = <<"pending">>
    /\ saved_count' = 0
    /\ row_outcomes' = <<>>
    /\ rows_at_entry' = stock_daily
    /\ identity_map' = stock_daily
    /\ session_new' = <<>>
    /\ UNCHANGED stock_daily
    /\ UNCHANGED nonStorageVars

\* The loop body for a row whose (code, date) is stored: the existing
\* record is updated in the session.
SaveRowUpdates ==
    /\ save_idx \in 1..Len(save_df)
    /\ save_df[save_idx].date \in BindableDates
    /\ \E existing \in select_where(save_code, save_df[save_idx].date) :
          identity_map' = [identity_map EXCEPT
                              ![existing].close = save_df[save_idx].close,
                              ![existing].data_source = save_source]
    /\ saved_count' = saved_count + 1
    /\ row_outcomes' = Append(row_outcomes, "saved")
    /\ save_idx' = save_idx + 1
    /\ UNCHANGED <<stock_daily, session_new, save_df, save_code, save_source,
                   save_result, save_calls, rows_at_entry, same_series>>
    /\ UNCHANGED nonStorageVars

\* The loop body for a row whose (code, date) is not stored: a new
\* record is added to the session.
SaveRowAdds ==
    /\ save_idx \in 1..Len(save_df)
    /\ save_df[save_idx].date \in BindableDates
    /\ select_where(save_code, save_df[save_idx].date) = {}
    /\ session_new' = Append(session_new,
                             StockDaily(save_code, save_df[save_idx].date,
                                        save_df[save_idx].close, save_source))
    /\ saved_count' = saved_count + 1
    /\ row_outcomes' = Append(row_outcomes, "saved")
    /\ save_idx' = save_idx + 1
    /\ UNCHANGED <<stock_daily, identity_map, save_df, save_code, save_source,
                   save_result, save_calls, rows_at_entry, same_series>>
    /\ UNCHANGED nonStorageVars

\* The loop body for a row whose select raises: except Exception logs,
\* rolls the session back and continues.
SaveRowFails ==
    /\ save_idx \in 1..Len(save_df)
    /\ save_df[save_idx].date \notin BindableDates
    /\ session_new' = rollback.new
    /\ identity_map' = rollback.loaded
    /\ row_outcomes' = Append(row_outcomes, "failed")
    /\ save_idx' = save_idx + 1
    /\ UNCHANGED <<stock_daily, save_df, save_code, save_source, saved_count,
                   save_result, save_calls, rows_at_entry, same_series>>
    /\ UNCHANGED nonStorageVars

\* What session.commit() would make of the table
flushed == identity_map \o session_new

\* session.commit() after the loop succeeds; saved_count is returned.
SaveCommits ==
    /\ save_idx = Len(save_df) + 1
    /\ uix_code_date(flushed)
    /\ stock_daily' = flushed
    /\ save_result' = <<"return", PyInt(saved_count)>>
    /\ save_idx' = 0
    /\ identity_map' = <<>>
    /\ session_new' = <<>>
    /\ UNCHANGED <<save_df, save_code, save_source, saved_count, save_calls,
                   row_outcomes, rows_at_entry, same_series>>
    /\ UNCHANGED nonStorageVars

\* session.commit() after the loop raises IntegrityError, outside the
\* try of the loop: the transaction is rolled back as the session
\* closes, and the exception leaves save_daily_data.
SaveCommitRaises ==
    /\ save_idx = Len(save_df) + 1
    /\ ~uix_code_date(flushed)
    /\ save_result' = <<"raise", Exc("IntegrityError")>>
    /\ save_idx' = 0
    /\ identity_map' = <<>>
    /\ session_new' = <<>>
    /\ UNCHANGED <<stock_daily, save_df, save_code, save_source, saved_count,
                   save_calls, row_outcomes, rows_at_entry, same_series>>
    /\ UNCHANGED nonStorageVars

NextStorage ==
    \/ SaveEnter
    \/ SaveRowUpdates
    \/ SaveRowAdds
    \/ SaveRowFails
    \/ SaveCommits
    \/ SaveCommitRaises

InitStorage == StorageInit /\ StorageOthersIdle

SpecStorage == InitStorage /\ [][NextStorage]_vars

\* A call of save_daily_data has ended, by a return or by an exception.
SaveEnded == save_idx = 0 /\ save_result[1] \in {"return", "raise"}

\* The stored rows of a code and date
StoredAt(code, date) ==
    {i \in 1..Len(stock_daily) :
        stock_daily[i].code = code /\ stock_daily[i].date = date}

\* The last row of the DataFrame for a date
LastRowFor(date) ==
    save_df[CHOOSE i \in 1..Len(save_df) :
               /\ save_df[i].date = date
               /\ \A j \in (i + 1)..Len(save_df) : save_df[j].date # date]

\* C19: when the same series (the same code and dates) has been upserted
\* twice, the second call leaves the number of stored rows unchanged,
\* (code, date) unique, and every stored row of the series holding the
\* fields of the second payload.
C19_UpsertTwiceIdempotent ==
    (SaveEnded /\ same_series)
        => /\ Len(stock_daily) = Len(rows_at_entry)
           /\ uix_code_date(stock_daily)
           /\ \A k \in 1..Len(save_df) :
                 \A i \in StoredAt(save_code, save_df[k].date) :
                    /\ stock_daily[i].close = LastRowFor(save_df[k].date).close
                    /\ stock_daily[i].data_source = save_source

\* C20: when save_daily_data has ended it has not raised, and every row
\* of the series that did not fail is persisted, whatever other rows
\* failed before or after it.
C20_BadRowDoesNotPoisonBatch ==
    SaveEnded
        => /\ save_result[1] = "return"
           /\ \A k \in 1..Len(row_outcomes) :
                 row_outcomes[k] = "saved"
                    => StoredAt(save_code, save_df[k].date) # {}

(***************************************************************************)
(*            Storage: DatabaseManager.get_analysis_context                *)
(***************************************************************************)

\* Largest number of bars stored for the code asked for
MaxBars == 21

\* Largest value of argument days
MaxDays == 21

\* len(data) < 20
MIN_CONTEXT_BARS == 20

\* The close stored for the bar of day d, different for every day.
CloseOf(d) == 100 + d

\* The bars of a code for days 1..n, in the order of their ids: stored
\* oldest first, or newest first.
BarsOf(code, n, newest_first) ==
    [i \in 1..n |->
        LET d == IF newest_first THEN n + 1 - i ELSE i
        IN  StockDaily(code, PyDate(d), CloseOf(d), "AkshareFetcher")]

\* The tables get_analysis_context is called on: n bars of one code, and
\* possibly a later bar of another code stored before them.
StoredTables ==
    {(IF other THEN BarsOf("000001", 1, FALSE) ELSE <<>>)
        \o BarsOf("600519", n, newest_first) :
        n \in 0..MaxBars, newest_first \in BOOLEAN, other \in BOOLEAN}

\* DatabaseManager() on a database that holds bars; no call in progress.
ContextInit ==
    /\ stock_daily \in StoredTables
    /\ identity_map = <<>>
    /\ session_new = <<>>
    /\ save_df = <<>>
    /\ save_code = ""
    /\ save_source = ""
    /\ save_idx = 0
    /\ saved_count = 0
    /\ save_result = <<"none">>
    /\ save_calls = 0
    /\ row_outcomes = <<>>
    /\ rows_at_entry = <<>>
    /\ same_series = FALSE
    /\ context_args = <<>>
    /\ context = <<"none">>

\* .where(StockDaily.code == code)
where_code(rows, code) == SelectSeq(rows, LAMBDA r : r.code = code)

\* .order_by(StockDaily.date): ascending; the dates of one code differ.
order_by_date(rows) ==
    [k \in 1..Len(rows) |->
        rows[CHOOSE i \in 1..Len(rows) :
                Cardinality({j \in 1..Len(rows) :
                                rows[j].date[2] < rows[i].date[2]}) = k - 1]]

\* .order_by(desc(StockDaily.date)), as get_latest_data orders.
order_by_date_desc(rows) ==
    [k \in 1..Len(rows) |->
        rows[CHOOSE i \in 1..Len(rows) :
                Cardinality({j \in 1..Len(rows) :
                                rows[j].date[2] > rows[i].date[2]}) = k - 1]]

\* .limit(n)
limit(rows, n) == SubSeq(rows, 1, IF n < Len(rows) THEN n ELSE Len(rows))

\* DatabaseManager.get_all_data
get_all_data(code, n) == limit(order_by_date(where_code(stock_daily, code)), n)

\* str(latest['date'])
str_of_date(date) == <<"str", "date", date[2]>>

\* The dict get_analysis_context returns; close stands for the payload
\* columns of the 'today', 'yesterday' and 'indicators' blocks.
Context(code, data) ==
    LET latest == data[Len(data)]
        yesterday == IF Len(data) >= 2 THEN data[Len(data) - 1] ELSE latest
    IN  <<"dict", [code |-> code,
                   date |-> str_of_date(latest.date),
                   today |-> [date |-> str_of_date(latest.date),
                              close |-> latest.close],
                   yesterday |-> [close |-> yesterday.close],
                   raw_data |-> data]>>

\* DatabaseManager.get_analysis_context
GetAnalysisContext ==
    /\ \E code \in StockCodes, days \in 1..MaxDays :
          LET data == get_all_data(code, days)
          IN  /\ context_args' = <<code, days>>
              /\ context' = IF data = <<>> \/ Len(data) < MIN_CONTEXT_BARS
                            THEN None
                            ELSE Context(code, data)
    /\ UNCHANGED nonContextVars

NextContext == GetAnalysisContext

InitContext == ContextInit /\ ContextOthersIdle

SpecContext == InitContext /\ [][NextContext]_vars

\* The stored bars of the code of the last call
StoredFor == where_code(stock_daily, context_args[1])

\* The stored bar of that code with the k-th latest date
KthLatest(k) == order_by_date_desc(StoredFor)[k]

\* C21: when at least 20 bars are stored for the code and days is at
\* least 20, the context is built from the most recent bars: 'today' is
\* the bar with the latest stored date and 'yesterday' the bar before it.
C21_ContextFromMostRecentBars ==
    (/\ context_args # <<>>
     /\ Len(StoredFor) >= MIN_CONTEXT_BARS
     /\ context_args[2] >= MIN_CONTEXT_BARS)
        => /\ context[1] = "dict"
           /\ context[2].today.date = str_of_date(KthLatest(1).date)
           /\ context[2].today.close = KthLatest(1).close
           /\ context[2].yesterday.close = KthLatest(2).close

(***************************************************************************)
(*                  Notifier: NotificationService, channels                *)
(***************************************************************************)

\* Largest number of analysis results in a report
MaxResults == 2

\* The channels configured in a run: any of these, in detection order.
ConfiguredChoices == {"wechat", "feishu", "telegram"}

\* FEISHU_MAX_BYTES and WECHAT_MAX_BYTES as configured
CapChoices == {3, 5}

\* The names of the analysed stocks: one ASCII character, or one CJK
\* character (U+80A1).
ResultNames == {"a", "U80A1"}

\* len(c.encode('utf-8')) for a character
utf8_len(c) == IF c = "U80A1" THEN 3 ELSE 1

\* str.encode('utf-8'): the k-th byte of character c is <<c, k>>.
RECURSIVE encode(_)
encode(text) ==
    IF text = <<>> THEN <<>>
    ELSE [k \in 1..utf8_len(Head(text)) |-> <<Head(text), k>>] \o encode(Tail(text))

\* bytes.decode('utf-8', errors='ignore'): a complete character is kept,
\* a byte that does not begin one is dropped.
RECURSIVE decode_ignore(_)
decode_ignore(bytes) ==
    IF bytes = <<>> THEN <<>>
    ELSE LET c == bytes[1][1]
             n == utf8_len(c)
         IN  IF /\ Len(bytes) >= n
                /\ \A k \in 1..n : bytes[k] = <<c, k>>
             THEN <<c>> \o decode_ignore(SubSeq(bytes, n + 1, Len(bytes)))
             ELSE decode_ignore(Tail(bytes))

\* "\n...(消息过长已截断)"
TruncationMarker == <<"\n...(U6D88U606FU8FC7U957FU5DF2U622AU65AD)">>

\* NotificationFormatter.generate_daily_report: a title and a section per
\* result, each carrying the name of its stock.
RECURSIVE generate_daily_report(_)
generate_daily_report(results) ==
    IF results = <<>> THEN <<"#">>
    ELSE generate_daily_report(SubSeq(results, 1, Len(results) - 1))
            \o <<results[Len(results)]>>

\* The lists of results passed to send_daily_report
ResultLists == UNION {[1..n -> ResultNames] : n \in 0..MaxResults}

\* _detect_all_channels: the configured channels in detection order
_detect_all_channels(configured) ==
    SelectSeq(ChannelOrder, LAMBDA ch : ch \in configured)

\* NotificationService.__init__
NotifyInit ==
    /\ \E configured \in SUBSET ConfiguredChoices :
          _available_channels = _detect_all_channels(configured)
    /\ _feishu_max_bytes \in CapChoices
    /\ _wechat_max_bytes \in CapChoices
    /\ notify_pc = "idle"
    /\ report_content = <<>>
    /\ format_calls = 0
    /\ futures = [ch \in AllChannels |-> <<"none">>]
    /\ send_calls = [ch \in AllChannels |-> 0]
    /\ handed = [ch \in AllChannels |-> Absent]
    /\ transmitted = [ch \in AllChannels |-> Absent]
    /\ post_status = [ch \in AllChannels |-> "none"]
    /\ collected = {}
    /\ success = TRUE
    /\ send_return = <<"none">>

\* The channels a worker is submitted for: only the first one.
submitted_first_only(channels) ==
    IF channels = <<>> THEN {} ELSE {channels[1]}

\* The channels a worker is submitted for: the keys of
\* {executor.submit(...): channel for channel in self._available_channels}
submitted(channels) == {channels[i] : i \in 1..Len(channels)}

\* send_daily_report up to the submission of the workers; with no channel
\* it returns False at once.
SendDailyReportEnter ==
    /\ notify_pc = "idle"
    /\ \E results \in ResultLists :
          IF _available_channels = <<>>
          THEN /\ send_return' = <<"return", FALSE>>
               /\ UNCHANGED <<notify_pc, report_content, format_calls, futures>>
          ELSE /\ report_content' = generate_daily_report(results)
               /\ format_calls' = 1
               /\ futures' = [ch \in AllChannels |->
                                 IF ch \in submitted(_available_channels)
                                 THEN <<"running">> ELSE <<"none">>]
               /\ notify_pc' = "collecting"
               /\ send_return' = <<"pending">>
    /\ send_calls' = [ch \in AllChannels |-> 0]
    /\ handed' = [ch \in AllChannels |-> Absent]
    /\ transmitted' = [ch \in AllChannels |-> Absent]
    /\ post_status' = [ch \in AllChannels |-> "none"]
    /\ collected' = {}
    /\ success' = TRUE
    /\ UNCHANGED <<_available_channels, _feishu_max_bytes, _wechat_max_bytes>>
    /\ UNCHANGED nonNotifyVars

\* How requests.post ends: a response with status 200, a response with
\* another status, or an exception.
PostOutcomes == {"200", "500", "raises"}

\* FeishuChannel.send: the text posted for a content
feishu_text(content, max_bytes) ==
    IF Len(encode(content)) > max_bytes
    THEN decode_ignore(SubSeq(encode(content), 1, max_bytes)) \o TruncationMarker
    ELSE content

\* The text a channel posts for a content: FeishuChannel truncates, the
\* other channels post the content as it is.
posted_text(ch, content) ==
    IF ch = "feishu" THEN feishu_text(content, _feishu_max_bytes) ELSE content

\* The worker of a channel: _send_to_channel builds the channel object
\* and calls its send, which posts the text; an exception of the post is
\* caught by send and False is returned.
ChannelSends ==
    /\ notify_pc = "collecting"
    /\ \E ch \in AllChannels, post \in PostOutcomes :
          /\ futures[ch] = <<"running">>
          /\ send_calls' = [send_calls EXCEPT ![ch] = @ + 1]
          /\ handed' = [handed EXCEPT ![ch] = report_content]
          /\ post_status' = [post_status EXCEPT ![ch] = post]
          /\ transmitted' = [transmitted EXCEPT ![ch] =
                                IF post = "raises" THEN Absent
                                ELSE posted_text(ch, report_content)]
          /\ futures' = [futures EXCEPT ![ch] = <<"done", post = "200">>]
    /\ UNCHANGED <<_available_channels, _feishu_max_bytes, _wechat_max_bytes,
                   notify_pc, report_content, format_calls, collected, success,
                   send_return>>
    /\ UNCHANGED nonNotifyVars

\* The overall result is the result of the channel collected last.
last_result(so_far, channel_success) == channel_success

\* if not channel_success: success = False
all_so_far(so_far, channel_success) == so_far /\ channel_success

\* as_completed(futures): the finished futures not yet yielded
as_completed == {ch \in AllChannels : futures[ch][1] = "done"} \ collected

\* One turn of the loop over as_completed(futures)
CollectFuture ==
    /\ notify_pc = "collecting"
    /\ \E ch \in as_completed :
          /\ collected' = collected \cup {ch}
          /\ success' = all_so_far(success, futures[ch][2])
    /\ UNCHANGED <<_available_channels, _feishu_max_bytes, _wechat_max_bytes,
                   notify_pc, report_content, format_calls, futures, send_calls,
                   handed, transmitted, post_status, send_return>>
    /\ UNCHANGED nonNotifyVars

\* The loop is over when every future was yielded; the executor is shut
\* down, waiting for its workers, and success is returned.
SendDailyReportReturns ==
    /\ notify_pc = "collecting"
    /\ collected = {ch \in AllChannels : futures[ch] # <<"none">>}
    /\ notify_pc' = "idle"
    /\ send_return' = <<"return", success>>
    /\ UNCHANGED <<_available_channels, _feishu_max_bytes, _wechat_max_bytes,
                   report_content, format_calls, futures, send_calls, handed,
                   transmitted, post_status, collected, success>>
    /\ UNCHANGED nonNotifyVars

NextNotify ==
    \/ SendDailyReportEnter
    \/ ChannelSends
    \/ CollectFuture
    \/ SendDailyReportReturns

InitNotify == NotifyInit /\ NotifyOthersIdle

SpecNotify == InitNotify /\ [][NextNotify]_vars

(***************************************************************************)
(*                       Properties of the notifier                        *)
(***************************************************************************)

\* The enabled channels
Enabled == {_available_channels[i] : i \in 1..Len(_available_channels)}

\* A send with at least one enabled channel has ended.
SendEnded == notify_pc = "idle" /\ send_return # <<"none">> /\ Enabled # {}

\* C22: a send over N >= 1 enabled channels returns, never raises; it
\* returns true exactly when the send of every enabled channel returned
\* true, and the channels that succeeded are exactly those whose post was
\* answered with status 200.
C22_AllChannelsOrFalse ==
    SendEnded
        => /\ send_return[1] = "return"
           /\ send_return[2] = (\A ch \in Enabled : futures[ch] = <<"done", TRUE>>)
           /\ {ch \in Enabled : futures[ch] = <<"done", TRUE>>}
                 = {ch \in Enabled : post_status[ch] = "200"}

\* A send over three channels of which one succeeded, one was answered
\* with an error status and one raised has ended.
C22_Witness ==
    /\ SendEnded
    /\ Len(_available_channels) = 3
    /\ \E a, b, c \in Enabled :
          /\ post_status[a] = "200"
          /\ post_status[b] = "500"
          /\ post_status[c] = "raises"
    /\ send_return = <<"return", FALSE>>

\* C23: when a send has ended, the send of every enabled channel was
\* invoked exactly once, whatever the other channels did, the report
\* was formatted once, every channel was handed that same report, and
\* every worker has completed; no send is ever invoked twice.
C23_EveryChannelOnceThenJoin ==
    /\ \A ch \in AllChannels : send_calls[ch] <= 1
    /\ SendEnded
          => /\ format_calls = 1
             /\ \A ch \in Enabled :
                   /\ send_calls[ch] = 1
                   /\ handed[ch] = report_content
                   /\ futures[ch][1] = "done"

\* A send over three channels has ended, the first of which raised.
C23_Witness ==
    /\ SendEnded
    /\ Len(_available_channels) = 3
    /\ post_status[_available_channels[1]] = "raises"
    /\ \A ch \in Enabled : send_calls[ch] = 1

\* The cap configured for a channel that has one
max_bytes_of(ch) == IF ch = "wechat" THEN _wechat_max_bytes ELSE _feishu_max_bytes

\* text is content cut on a character boundary within max_bytes, followed
\* by the truncation marker.
TruncatedTo(text, content, max_bytes) ==
    \E n \in 0..Len(content) :
        /\ text = SubSeq(content, 1, n) \o TruncationMarker
        /\ Len(encode(SubSeq(content, 1, n))) <= max_bytes

\* C24: whatever a capped channel (WeChat, Feishu) transmits for a report
\* longer than its cap is the report truncated on a character boundary,
\* followed by the truncation marker.
C24_CappedChannelsTruncate ==
    \A ch \in {"wechat", "feishu"} :
        (/\ transmitted[ch] # Absent
         /\ Len(encode(handed[ch])) > max_bytes_of(ch))
            => TruncatedTo(transmitted[ch], handed[ch], max_bytes_of(ch))

(***************************************************************************)
(*        Circuit breaker called from several threads at a time            *)
(***************************************************************************)

\* CircuitBreaker has no lock: the threads interleave between the reads
\* and the writes of its attributes. Every thread makes one call.

\* The breaker variables no thread step writes
breakerFixed == <<failure_threshold, timeout, half_open_max_calls, now, pc,
                  outcome, invocations, calls, only_failures, episode_successes>>

\* call, lines 92-101: the check of the state before the function runs.
ThreadCallEnter(t) ==
    /\ thread_pc[t] = "start"
    /\ IF state = "OPEN" /\ ~_should_attempt_reset
       THEN /\ thread_pc' = [thread_pc EXCEPT ![t] = "done"]
            /\ thread_outcome' = [thread_outcome EXCEPT ![t] = "rejected"]
            /\ UNCHANGED <<state, half_open_calls>>
       ELSE /\ state' = IF state = "OPEN" THEN "HALF_OPEN" ELSE state
            /\ half_open_calls' = IF state = "OPEN" THEN 0 ELSE half_open_calls
            /\ thread_pc' = [thread_pc EXCEPT ![t] = "in_func"]
            /\ UNCHANGED thread_outcome
    /\ UNCHANGED <<failure_count, success_count, last_failure_time,
                   last_success_time, thread_reg>>
    /\ UNCHANGED breakerFixed
    /\ UNCHANGED nonBreakerThreadVars

\* line 104: the protected function returns; _on_success sets
\* last_success_time and reads success_count.
ThreadFuncReturns(t) ==
    /\ thread_pc[t] = "in_func"
    /\ last_success_time' = now
    /\ thread_reg' = [thread_reg EXCEPT ![t] = success_count]
    /\ thread_pc' = [thread_pc EXCEPT ![t] = "success_store"]
    /\ UNCHANGED <<state, failure_count, success_count, last_failure_time,
                   half_open_calls, thread_outcome>>
    /\ UNCHANGED breakerFixed
    /\ UNCHANGED nonBreakerThreadVars

\* line 149: self.success_count += 1 stores the value read plus one; the
\* rest of _on_success (lines 151-160) follows.
ThreadSuccessStore(t) ==
    /\ thread_pc[t] = "success_store"
    /\ IF state = "HALF_OPEN"
       THEN /\ half_open_calls' = half_open_calls + 1
            /\ IF half_open_calls + 1 >= half_open_max_calls
               THEN /\ state' = "CLOSED"
                    /\ failure_count' = 0
                    /\ success_count' = 0
               ELSE /\ success_count' = thread_reg[t] + 1
                    /\ UNCHANGED <<state, failure_count>>
       ELSE /\ success_count' = thread_reg[t] + 1
            /\ failure_count' = IF state = "CLOSED" /\ failure_count > 0
                                THEN Max(0, failure_count - 1)
                                ELSE failure_count
            /\ UNCHANGED <<state, half_open_calls>>
    /\ thread_pc' = [thread_pc EXCEPT ![t] = "done"]
    /\ thread_outcome' = [thread_outcome EXCEPT ![t] = "success"]
    /\ UNCHANGED <<last_failure_time, last_success_time, thread_reg>>
    /\ UNCHANGED breakerFixed
    /\ UNCHANGED nonBreakerThreadVars

\* line 111: the protected function raises; _on_failure reads
\* failure_count for self.failure_count += 1.
ThreadFuncRaises(t) ==
    /\ thread_pc[t] = "in_func"
    /\ thread_reg' = [thread_reg EXCEPT ![t] = failure_count]
    /\ thread_pc' = [thread_pc EXCEPT ![t] = "failure_store"]
    /\ UNCHANGED <<state, failure_count, success_count, last_failure_time,
                   last_success_time, half_open_calls, thread_outcome>>
    /\ UNCHANGED breakerFixed
    /\ UNCHANGED nonBreakerThreadVars

\* lines 164-165: the value read plus one is stored, and
\* last_failure_time is set.
ThreadFailureStore(t) ==
    /\ thread_pc[t] = "failure_store"
    /\ failure_count' = thread_reg[t] + 1
    /\ last_failure_time' = now
    /\ thread_pc' = [thread_pc EXCEPT ![t] = "failure_check"]
    /\ UNCHANGED <<state, success_count, last_success_time, half_open_calls,
                   thread_reg, thread_outcome>>
    /\ UNCHANGED breakerFixed
    /\ UNCHANGED nonBreakerThreadVars

\* lines 167-174: the breaker opens from HALF_OPEN, or from CLOSED when
\* failure_count has reached the threshold; the exception is re-raised.
ThreadFailureCheck(t) ==
    /\ thread_pc[t] = "failure_check"
    /\ state' = IF state = "HALF_OPEN" THEN "OPEN"
                ELSE IF state = "CLOSED" /\ failure_count >= failure_threshold
                THEN "OPEN"
                ELSE state
    /\ thread_pc' = [thread_pc EXCEPT ![t] = "done"]
    /\ thread_outcome' = [thread_outcome EXCEPT ![t] = "failure"]
    /\ UNCHANGED <<failure_count, success_count, last_failure_time,
                   last_success_time, half_open_calls, thread_reg>>
    /\ UNCHANGED breakerFixed
    /\ UNCHANGED nonBreakerThreadVars

NextBreakerThreads ==
    \/ \E t \in Threads : ThreadCallEnter(t)
    \/ \E t \in Threads : ThreadFuncReturns(t)
    \/ \E t \in Threads : ThreadSuccessStore(t)
    \/ \E t \in Threads : ThreadFuncRaises(t)
    \/ \E t \in Threads : ThreadFailureStore(t)
    \/ \E t \in Threads : ThreadFailureCheck(t)

InitBreakerThreads ==
    /\ BreakerInit
    /\ thread_pc = [t \in Threads |-> "start"]
    /\ thread_reg = [t \in Threads |-> 0]
    /\ thread_outcome = [t \in Threads |-> "none"]
    /\ BreakerThreadOthersIdle

SpecBreakerThreads == InitBreakerThreads /\ [][NextBreakerThreads]_vars

\* Every thread has left call.
AllCallsDone == \A t \in Threads : thread_pc[t] = "done"

\* C25: the concurrent calls are serialized, no update is lost: when n
\* calls that all failed have ended, failure_count is n and a breaker
\* whose threshold is at most n is OPEN; when n calls that all succeeded
\* have ended, success_count is n.
C25_ConcurrentCallsSerialized ==
    AllCallsDone
        => /\ (\A t \in Threads : thread_outcome[t] = "failure")
                 => /\ failure_count = NumThreads
                    /\ failure_threshold <= NumThreads => state = "OPEN"
           /\ (\A t \in Threads : thread_outcome[t] = "success")
                 => success_count = NumThreads

(***************************************************************************)
(*         Cache manager called from several threads at a time             *)
(***************************************************************************)

\* CacheManager has no lock: the threads interleave between the
\* statements of get, set and delete that touch _memory_cache and the
\* cache files.

\* Number of calls a thread makes, one after the other
MaxThreadOps == 2

\* The key the threads contend for, and the values they set.
ThreadKeys == {"a"}

ThreadValues == {Str("v1"), Str("v2")}

\* The calls a thread can make.
ThreadOps ==
    {<<"set", k, v>> : k \in ThreadKeys, v \in ThreadValues}
        \cup {<<"get", k>> : k \in ThreadKeys}
        \cup {<<"delete", k>> : k \in ThreadKeys}

\* The cache variables no thread step writes
cacheFixed == <<default_ttl, max_cache_size, cache_now, cache_ops, last_op,
                get_return, written>>

\* The call of thread t ends with result r.
Ended(t, r) ==
    /\ cthread_pc' = [cthread_pc EXCEPT ![t] = "idle"]
    /\ cthread_log' = [cthread_log EXCEPT
                          ![t] = Append(@, [op |-> cthread_op[t], result |-> r])]
    /\ cthread_op' = [cthread_op EXCEPT ![t] = <<"none">>]

\* The call of thread t goes on at position p.
GoesOn(t, p) ==
    /\ cthread_pc' = [cthread_pc EXCEPT ![t] = p]
    /\ UNCHANGED <<cthread_op, cthread_log>>

\* A thread calls get, set or delete.
CThreadCalls(t) ==
    /\ cthread_pc[t] = "idle"
    /\ Len(cthread_log[t]) < MaxThreadOps
    /\ \E op \in ThreadOps :
          /\ cthread_op' = [cthread_op EXCEPT ![t] = op]
          /\ cthread_pc' = [cthread_pc EXCEPT
                               ![t] = CASE op[1] = "set" -> "set_memory"
                                        [] op[1] = "get" -> "get_check"
                                        [] OTHER -> "delete_check"]
    /\ UNCHANGED <<_memory_cache, _stats, cache_files, cthread_log>>
    /\ UNCHANGED cacheFixed
    /\ UNCHANGED nonCacheThreadVars

\* set, lines 133-142: cache_data is built and stored in _memory_cache;
\* the thread keeps cache_data for the file.
CThreadSetMemory(t) ==
    /\ cthread_pc[t] = "set_memory"
    /\ LET key == cthread_op[t][2]
           cache_data == Entry(cache_now, ttl_or_default(None), cthread_op[t][3])
       IN  /\ _memory_cache' = [_memory_cache EXCEPT ![key] = cache_data]
           /\ cthread_op' = [cthread_op EXCEPT ![t] = Append(@, cache_data)]
    /\ cthread_pc' = [cthread_pc EXCEPT ![t] = "set_file"]
    /\ UNCHANGED <<_stats, cache_files, cthread_log>>
    /\ UNCHANGED cacheFixed
    /\ UNCHANGED nonCacheThreadVars

\* set, lines 145-157: the file is written and _cleanup_if_needed runs.
CThreadSetFile(t) ==
    /\ cthread_pc[t] = "set_file"
    /\ \E write \in WriteOutcomes :
          LET key == cthread_op[t][2]
              cache_data == cthread_op[t][4]
              cache_file == _get_cache_file(key)
              after_write ==
                  CASE write = "written" ->
                         [cache_files EXCEPT ![cache_file] = File(cache_data, cache_now)]
                    [] write = "dump_raises" ->
                         [cache_files EXCEPT ![cache_file] = File(Corrupt, cache_now)]
                    [] OTHER -> cache_files
          IN  /\ \E order \in MtimeOrders(after_write) :
                    LET cleaned == _cleanup_if_needed(after_write, order)
                    IN  /\ cache_files' = cleaned.files
                        /\ _stats' = [_stats EXCEPT
                                         !.sets = IF write = "written" THEN @ + 1 ELSE @,
                                         !.deletes = @ + cleaned.deleted]
              /\ cthread_pc' = [cthread_pc EXCEPT ![t] = "idle"]
              /\ cthread_log' = [cthread_log EXCEPT
                                    ![t] = Append(@, [op |-> SubSeq(cthread_op[t], 1, 3),
                                                      result |-> Str(write)])]
              /\ cthread_op' = [cthread_op EXCEPT ![t] = <<"none">>]
    /\ UNCHANGED _memory_cache
    /\ UNCHANGED cacheFixed
    /\ UNCHANGED nonCacheThreadVars

\* get, line 84: if key in self._memory_cache
CThreadGetCheck(t) ==
    /\ cthread_pc[t] = "get_check"
    /\ GoesOn(t, IF _memory_cache[cthread_op[t][2]] # Absent
                 THEN "get_read" ELSE "get_file")
    /\ UNCHANGED <<_memory_cache, _stats, cache_files>>
    /\ UNCHANGED cacheFixed
    /\ UNCHANGED nonCacheThreadVars

\* get, lines 85-94: self._memory_cache[key] raises KeyError when the
\* key has gone since line 84; a fresh entry is returned, a stale one
\* deleted.
CThreadGetRead(t) ==
    /\ cthread_pc[t] = "get_read"
    /\ LET key == cthread_op[t][2]
           cache_data == _memory_cache[key]
       IN  IF cache_data = Absent
           THEN /\ Ended(t, Exc("KeyError"))
                /\ UNCHANGED <<_memory_cache, _stats>>
           ELSE IF fresh(cache_data, ttl_or_default(None))
           THEN /\ Ended(t, value_of(cache_data))
                /\ _stats' = [_stats EXCEPT !.hits = @ + 1]
                /\ UNCHANGED _memory_cache
           ELSE /\ GoesOn(t, "get_file")
                /\ _memory_cache' = [_memory_cache EXCEPT ![key] = Absent]
                /\ UNCHANGED _stats
    /\ UNCHANGED cache_files
    /\ UNCHANGED cacheFixed
    /\ UNCHANGED nonCacheThreadVars

\* get, lines 97-122: the file tier, then the miss.
CThreadGetFile(t) ==
    /\ cthread_pc[t] = "get_file"
    /\ LET key == cthread_op[t][2]
           cache_file == _get_cache_file(key)
           f == cache_files[cache_file]
       IN  IF f = Absent \/ content_of(f) = Corrupt
           THEN /\ Ended(t, None)
                /\ _stats' = [_stats EXCEPT !.misses = @ + 1]
                /\ UNCHANGED <<_memory_cache, cache_files>>
           ELSE IF fresh(content_of(f), ttl_or_default(None))
           THEN /\ Ended(t, value_of(content_of(f)))
                /\ _memory_cache' = [_memory_cache EXCEPT ![key] = content_of(f)]
                /\ _stats' = [_stats EXCEPT !.hits = @ + 1]
                /\ UNCHANGED cache_files
           ELSE /\ Ended(t, None)
                /\ cache_files' = [cache_files EXCEPT ![cache_file] = Absent]
                /\ _stats' = [_stats EXCEPT !.deletes = @ + 1, !.misses = @ + 1]
                /\ UNCHANGED _memory_cache
    /\ UNCHANGED cacheFixed
    /\ UNCHANGED nonCacheThreadVars

\* delete, line 167: if key in self._memory_cache
CThreadDeleteCheck(t) ==
    /\ cthread_pc[t] = "delete_check"
    /\ GoesOn(t, IF _memory_cache[cthread_op[t][2]] # Absent
                 THEN "delete_del" ELSE "delete_file")
    /\ UNCHANGED <<_memory_cache, _stats, cache_files>>
    /\ UNCHANGED cacheFixed
    /\ UNCHANGED nonCacheThreadVars

\* delete, line 168: del self._memory_cache[key] raises KeyError when
\* the key has gone since line 167.
CThreadDeleteDel(t) ==
    /\ cthread_pc[t] = "delete_del"
    /\ LET key == cthread_op[t][2]
       IN  IF _memory_cache[key] = Absent
           THEN /\ Ended(t, Exc("KeyError"))
                /\ UNCHANGED _memory_cache
           ELSE /\ GoesOn(t, "delete_file")
                /\ _memory_cache' = [_memory_cache EXCEPT ![key] = Absent]
    /\ UNCHANGED <<_stats, cache_files>>
    /\ UNCHANGED cacheFixed
    /\ UNCHANGED nonCacheThreadVars

\* delete, lines 171-175: the file is removed if it exists.
CThreadDeleteFile(t) ==
    /\ cthread_pc[t] = "delete_file"
    /\ LET cache_file == _get_cache_file(cthread_op[t][2])
       IN  /\ cache_files' = [cache_files EXCEPT ![cache_file] = Absent]
           /\ _stats' = [_stats EXCEPT
                            !.deletes = IF cache_files[cache_file] # Absent
                                        THEN @ + 1 ELSE @]
    /\ Ended(t, None)
    /\ UNCHANGED _memory_cache
    /\ UNCHANGED cacheFixed
    /\ UNCHANGED nonCacheThreadVars

NextCacheThreads ==
    \/ \E t \in Threads : CThreadCalls(t)
    \/ \E t \in Threads : CThreadSetMemory(t)
    \/ \E t \in Threads : CThreadSetFile(t)
    \/ \E t \in Threads : CThreadGetCheck(t)
    \/ \E t \in Threads : CThreadGetRead(t)
    \/ \E t \in Threads : CThreadGetFile(t)
    \/ \E t \in Threads : CThreadDeleteCheck(t)
    \/ \E t \in Threads : CThreadDeleteDel(t)
    \/ \E t \in Threads : CThreadDeleteFile(t)

InitCacheThreads ==
    /\ CacheInit
    /\ cthread_pc = [t \in Threads |-> "idle"]
    /\ cthread_op = [t \in Threads |-> <<"none">>]
    /\ cthread_log = [t \in Threads |-> <<>>]
    /\ CacheThreadOthersIdle

SpecCacheThreads == InitCacheThreads /\ [][NextCacheThreads]_vars

\* The calls of thread t that have ended.
EndedCalls(t) == {cthread_log[t][i] : i \in 1..Len(cthread_log[t])}

\* Nothing but one set of key k by each thread has run, and each wrote
\* its file.
OnlyConcurrentSets(k) ==
    /\ \A t \in Threads : cthread_pc[t] = "idle" /\ Len(cthread_log[t]) = 1
    /\ \A t \in Threads :
          /\ cthread_log[t][1].op[1] = "set"
          /\ cthread_log[t][1].op[2] = k
          /\ cthread_log[t][1].result = Str("written")

\* C26: concurrent set(k, v1) and set(k, v2) are serialized, so that when
\* both have ended the memory tier and the file tier hold the same entry
\* for k; and a get that runs concurrently with set, delete or get never
\* raises.
C26_ConcurrentCacheCallsSafe ==
    /\ \A k \in ThreadKeys :
          OnlyConcurrentSets(k)
              => /\ _memory_cache[k] # Absent
                 /\ cache_files[_get_cache_file(k)] # Absent
                 /\ content_of(cache_files[_get_cache_file(k)]) = _memory_cache[k]
    /\ \A t \in Threads : \A e \in EndedCalls(t) :
          e.op[1] = "get" => e.result # Exc("KeyError")

(***************************************************************************)
(*        save_daily_data called by several workers at a time              *)
(***************************************************************************)

\* Every call opens a session of its own (get_session returns
\* self.SessionLocal()); the sessions share the table. Each worker saves
\* a DataFrame of one row.

\* The storage variables no worker step writes
storageFixed == <<identity_map, session_new, save_df, save_code, save_source,
                  save_idx, saved_count, save_result, save_calls,
                  row_outcomes, rows_at_entry, same_series>>

\* save_daily_data(df, code, data_source) is called, lines 399-404.
WorkerEnter(w) ==
    /\ worker_pc[w] = "start"
    /\ \E code \in StockCodes, date \in BindableDates, close \in Closes,
          data_source \in Sources :
          worker_args' = [worker_args EXCEPT
                             ![w] = [df |-> <<DfRow(date, close)>>, code |-> code,
                                     data_source |-> data_source]]
    /\ worker_pc' = [worker_pc EXCEPT ![w] = "loop"]
    /\ UNCHANGED <<stock_daily, worker_existing, worker_new, worker_result>>
    /\ UNCHANGED storageFixed
    /\ UNCHANGED nonWorkerVars

\* The loop body, lines 405-466: the select runs on the committed rows;
\* a stored row is updated in the session, otherwise a record is added
\* to the session.
WorkerRow(w) ==
    /\ worker_pc[w] = "loop"
    /\ LET row == worker_args[w].df[1]
           existing == select_where(worker_args[w].code, row.date)
       IN  /\ worker_existing' = [worker_existing EXCEPT ![w] = existing]
           /\ worker_new' = [worker_new EXCEPT
                                ![w] = IF existing = {}
                                       THEN <<StockDaily(worker_args[w].code, row.date,
                                                         row.close,
                                                         worker_args[w].data_source)>>
                                       ELSE <<>>]
    /\ worker_pc' = [worker_pc EXCEPT ![w] = "commit"]
    /\ UNCHANGED <<stock_daily, worker_args, worker_result>>
    /\ UNCHANGED storageFixed
    /\ UNCHANGED nonWorkerVars

\* What the commit of worker w would make of the table: the UPDATE of the
\* row it loaded, then the INSERT of its pending records.
worker_flushed(w) ==
    [i \in 1..Len(stock_daily) |->
        IF i \in worker_existing[w]
        THEN [stock_daily[i] EXCEPT !.close = worker_args[w].df[1].close,
                                    !.data_source = worker_args[w].data_source]
        ELSE stock_daily[i]] \o worker_new[w]

\* session.commit(), line 477, succeeds; saved_count is returned.
WorkerCommits(w) ==
    /\ worker_pc[w] = "commit"
    /\ uix_code_date(worker_flushed(w))
    /\ stock_daily' = worker_flushed(w)
    /\ worker_result' = [worker_result EXCEPT ![w] = <<"return", PyInt(1)>>]
    /\ worker_pc' = [worker_pc EXCEPT ![w] = "done"]
    /\ worker_new' = [worker_new EXCEPT ![w] = <<>>]
    /\ UNCHANGED <<worker_args, worker_existing>>
    /\ UNCHANGED storageFixed
    /\ UNCHANGED nonWorkerVars

\* session.commit(), line 477, raises IntegrityError on uix_code_date,
\* outside the try of the loop: the exception leaves save_daily_data.
WorkerCommitRaises(w) ==
    /\ worker_pc[w] = "commit"
    /\ ~uix_code_date(worker_flushed(w))
    /\ worker_result' = [worker_result EXCEPT ![w] = <<"raise", Exc("IntegrityError")>>]
    /\ worker_pc' = [worker_pc EXCEPT ![w] = "done"]
    /\ worker_new' = [worker_new EXCEPT ![w] = <<>>]
    /\ UNCHANGED <<stock_daily, worker_args, worker_existing>>
    /\ UNCHANGED storageFixed
    /\ UNCHANGED nonWorkerVars

NextSaveWorkers ==
    \/ \E w \in Workers : WorkerEnter(w)
    \/ \E w \in Workers : WorkerRow(w)
    \/ \E w \in Workers : WorkerCommits(w)
    \/ \E w \in Workers : WorkerCommitRaises(w)

InitSaveWorkers ==
    /\ StorageInit
    /\ worker_pc = [w \in Workers |-> "start"]
    /\ worker_args = [w \in Workers |-> <<"none">>]
    /\ worker_existing = [w \in Workers |-> {}]
    /\ worker_new = [w \in Workers |-> <<>>]
    /\ worker_result = [w \in Workers |-> <<"none">>]
    /\ WorkerOthersIdle

SpecSaveWorkers == InitSaveWorkers /\ [][NextSaveWorkers]_vars

\* Every worker has ended its call, and all saved the same (code, date).
AllSavedSameBar ==
    /\ \A w \in Workers : worker_pc[w] = "done"
    /\ \A v, w \in Workers :
          /\ worker_args[v].code = worker_args[w].code
          /\ worker_args[v].df[1].date = worker_args[w].df[1].date

\* C27: when two workers have saved the same (code, date), not stored
\* before, exactly one row exists for it, holding the payload of one of
\* the calls, and neither call has raised.
C27_ConcurrentSaveOneRowNoRaise ==
    AllSavedSameBar
        => LET code == worker_args[1].code
               date == worker_args[1].df[1].date
           IN  /\ Cardinality(StoredAt(code, date)) = 1
               /\ \A i \in StoredAt(code, date) :
                     \E w \in Workers :
                        stock_daily[i].close = worker_args[w].df[1].close
               /\ \A w \in Workers : worker_result[w][1] = "return"

(***************************************************************************)
(*        Singleton accessors called from several threads at a time        *)
(***************************************************************************)

\* get_config, get_cache_manager and get_notification_service test their
\* global and assign it with no lock; StockNameResolver.__new__ creates
\* under a lock, __init__ is guarded by hasattr(self, '_initialized')
\* alone. An instance is a position in objects.

\* A new instance of accessor a; loaded tells whether its initialisation
\* has completed, init_runs how many times it ran.
NewObject(a, loaded, init_runs) == [of |-> a, loaded |-> loaded, init_runs |-> init_runs]

\* A thread calls an accessor.
AccessorCalled(t) ==
    /\ sthread_pc[t] = "start"
    /\ \E a \in Accessors : sthread_call' = [sthread_call EXCEPT ![t] = a]
    /\ sthread_pc' = [sthread_pc EXCEPT ![t] = "check"]
    /\ UNCHANGED <<_instance, objects, sthread_self, sthread_result>>
    /\ UNCHANGED nonSingletonVars

\* The test of the global with no lock held: if _config_instance is None,
\* if _cache_manager is None, if _notification_service is None, and the
\* first if cls._instance is None of __new__.
AccessorChecks(t) ==
    /\ sthread_pc[t] = "check"
    /\ LET a == sthread_call[t]
       IN  IF _instance[a] = None
           THEN /\ sthread_pc' = [sthread_pc EXCEPT ![t] = "create"]
                /\ UNCHANGED sthread_self
           ELSE /\ sthread_pc' = [sthread_pc EXCEPT
                                     ![t] = IF a = "StockNameResolver"
                                            THEN "init_check" ELSE "return"]
                /\ sthread_self' = [sthread_self EXCEPT
                                       ![t] = IF a = "StockNameResolver"
                                              THEN _instance[a] ELSE None]
    /\ UNCHANGED <<_instance, objects, sthread_call, sthread_result>>
    /\ UNCHANGED nonSingletonVars

\* The construction: _cache_manager = CacheManager() and
\* _notification_service = NotificationService() assign a complete
\* instance; _config_instance = Config() assigns an instance whose fields
\* are still to be loaded; __new__ takes the lock, tests again and
\* creates an instance on which __init__ has not run.
AccessorCreates(t) ==
    /\ sthread_pc[t] = "create"
    /\ LET a == sthread_call[t]
           id == PyInt(Len(objects) + 1)
       IN  CASE a = "StockNameResolver" ->
                  /\ IF _instance[a] = None
                     THEN /\ objects' = Append(objects, NewObject(a, FALSE, 0))
                          /\ _instance' = [_instance EXCEPT ![a] = id]
                          /\ sthread_self' = [sthread_self EXCEPT ![t] = id]
                     ELSE /\ sthread_self' = [sthread_self EXCEPT ![t] = _instance[a]]
                          /\ UNCHANGED <<objects, _instance>>
                  /\ sthread_pc' = [sthread_pc EXCEPT ![t] = "init_check"]
             [] a = "get_config" ->
                  /\ objects' = Append(objects, NewObject(a, FALSE, 0))
                  /\ _instance' = [_instance EXCEPT ![a] = id]
                  /\ sthread_pc' = [sthread_pc EXCEPT ![t] = "load"]
                  /\ UNCHANGED sthread_self
             [] OTHER ->
                  /\ objects' = Append(objects, NewObject(a, TRUE, 1))
                  /\ _instance' = [_instance EXCEPT ![a] = id]
                  /\ sthread_pc' = [sthread_pc EXCEPT ![t] = "return"]
                  /\ UNCHANGED sthread_self
    /\ UNCHANGED <<sthread_call, sthread_result>>
    /\ UNCHANGED nonSingletonVars

\* get_config, lines 143-200: the fields are loaded from the environment
\* into the instance the global names.
ConfigLoads(t) ==
    /\ sthread_pc[t] = "load"
    /\ LET o == _instance["get_config"][2]
       IN  objects' = [objects EXCEPT ![o].loaded = TRUE, ![o].init_runs = @ + 1]
    /\ sthread_pc' = [sthread_pc EXCEPT ![t] = "return"]
    /\ UNCHANGED <<_instance, sthread_call, sthread_self, sthread_result>>
    /\ UNCHANGED nonSingletonVars

\* StockNameResolver.__init__, lines 50-51: if hasattr(self,
\* '_initialized'): return
ResolverInitChecks(t) ==
    /\ sthread_pc[t] = "init_check"
    /\ sthread_pc' = [sthread_pc EXCEPT
                         ![t] = IF objects[sthread_self[t][2]].loaded
                                THEN "return" ELSE "init_body"]
    /\ UNCHANGED <<_instance, objects, sthread_call, sthread_self, sthread_result>>
    /\ UNCHANGED nonSingletonVars

\* StockNameResolver.__init__, lines 54-67: the cache is reset and
\* loaded, then self._initialized = True.
ResolverInitRuns(t) ==
    /\ sthread_pc[t] = "init_body"
    /\ LET o == sthread_self[t][2]
       IN  objects' = [objects EXCEPT ![o].loaded = TRUE, ![o].init_runs = @ + 1]
    /\ sthread_pc' = [sthread_pc EXCEPT ![t] = "return"]
    /\ UNCHANGED <<_instance, sthread_call, sthread_self, sthread_result>>
    /\ UNCHANGED nonSingletonVars

\* The accessor returns the global (StockNameResolver() returns the
\* instance __new__ handed to __init__); what the caller observes of the
\* instance at that moment is recorded.
AccessorReturns(t) ==
    /\ sthread_pc[t] = "return"
    /\ LET a == sthread_call[t]
           id == IF a = "StockNameResolver" THEN sthread_self[t] ELSE _instance[a]
       IN  sthread_result' = [sthread_result EXCEPT
                                 ![t] = <<"return", id, objects[id[2]].loaded>>]
    /\ sthread_pc' = [sthread_pc EXCEPT ![t] = "done"]
    /\ UNCHANGED <<_instance, objects, sthread_call, sthread_self>>
    /\ UNCHANGED nonSingletonVars

NextSingleton ==
    \/ \E t \in Threads : AccessorCalled(t)
    \/ \E t \in Threads : AccessorChecks(t)
    \/ \E t \in Threads : AccessorCreates(t)
    \/ \E t \in Threads : ConfigLoads(t)
    \/ \E t \in Threads : ResolverInitChecks(t)
    \/ \E t \in Threads : ResolverInitRuns(t)
    \/ \E t \in Threads : AccessorReturns(t)

InitSingleton == SingletonIdle /\ SingletonOthersIdle

SpecSingleton == InitSingleton /\ [][NextSingleton]_vars

\* The instances constructed for accessor a
ObjectsOf(a) == {o \in 1..Len(objects) : objects[o].of = a}

\* C28: under concurrent first calls every accessor constructs one
\* instance at most and initialises it once, hands the same instance to
\* every caller, and hands out no instance whose initialisation has not
\* completed.
C28_SingletonsOnceUnderConcurrency ==
    /\ \A a \in Accessors : Cardinality(ObjectsOf(a)) <= 1
    /\ \A o \in 1..Len(objects) : objects[o].init_runs <= 1
    /\ \A t \in Threads : sthread_pc[t] = "done" => sthread_result[t][3]
    /\ \A t, u \in Threads :
          (/\ sthread_pc[t] = "done"
           /\ sthread_pc[u] = "done"
           /\ sthread_call[t] = sthread_call[u])
              => sthread_result[t][2] = sthread_result[u][2]

(***************************************************************************)
(*              Data provider: BaseFetcher.get_daily_data                  *)
(***************************************************************************)

\* Largest number of rows of the frame a data source returns
MaxRawRows == 2

\* Number of calls of get_daily_data in a run (the fetcher keeps no state
\* from one call to the next)
MaxFetchCalls == 1

\* A missing number (numpy.nan).
NaN == <<"NaN">>

\* The cells of a raw frame: dates as the source writes them (one that
\* pandas cannot parse), numbers, numbers written as text, text that is
\* no number, and missing values.
RawDates == {Str("2024-01-02"), Str("2024-01-03"), Str("bad")}

RawCloses == {PyInt(10), Str("12"), Str("--"), NaN}

RawVolumes == {PyInt(5), PyInt(-1), NaN}

\* open, high and low of a raw row: in order, or with low above high.
RawRanges == {[open |-> PyInt(10), high |-> PyInt(12), low |-> PyInt(9)],
              [open |-> PyInt(10), high |-> PyInt(9), low |-> PyInt(11)]}

\* A row as the data source names its columns.
RawRow(d, r, c, v) ==
    [trade_date |-> d, open |-> r.open, high |-> r.high, low |-> r.low,
     close |-> c, vol |-> v]

RawRowValues ==
    {RawRow(d, r, c, v) : d \in RawDates, r \in RawRanges, c \in RawCloses,
                          v \in RawVolumes}

RawFrames == UNION {[1..n -> RawRowValues] : n \in 0..MaxRawRows}

\* What _fetch_raw_data and _normalize_data, which the subclass writes,
\* can do in a call: return a frame, return None, or raise.
SourceBehaviours ==
    {<<"frame", f>> : f \in RawFrames}
        \cup {<<"none">>, <<"fetch_raises">>}
        \cup {<<"normalize_raises", f>> : f \in {f \in RawFrames : Len(f) = 1}}

\* _normalize_data: the columns of the source are renamed to the
\* canonical date, open, high, low, close, volume.
_normalize_data(raw_df) ==
    [i \in 1..Len(raw_df) |->
        [date |-> raw_df[i].trade_date, open |-> raw_df[i].open,
         high |-> raw_df[i].high, low |-> raw_df[i].low,
         close |-> raw_df[i].close, volume |-> raw_df[i].vol]]

\* pd.to_datetime of one cell; text that is no date raises.
parses(s) == s \in {Str("2024-01-02"), Str("2024-01-03")}

to_datetime(s) ==
    CASE s = Str("2024-01-02") -> PyDate(2)
      [] s = Str("2024-01-03") -> PyDate(3)

\* pd.to_numeric(..., errors='coerce') of one cell
to_numeric(x) ==
    CASE x[1] = "int" -> x
      [] x = Str("12") -> PyInt(12)
      [] OTHER -> NaN

\* df.dropna(subset=['close', 'volume'])
RECURSIVE dropna(_)
dropna(df) ==
    IF df = <<>> THEN <<>>
    ELSE IF Head(df).close = NaN \/ Head(df).volume = NaN
         THEN dropna(Tail(df))
         ELSE <<Head(df)>> \o dropna(Tail(df))

\* df.sort_values('date', ascending=True).reset_index(drop=True): the
\* orders the sort can produce (rows of equal date in any order).
sort_values(df) ==
    {s \in [1..Len(df) -> {df[i] : i \in 1..Len(df)}] :
        /\ \E p \in [1..Len(df) -> 1..Len(df)] :
              /\ \A i, j \in 1..Len(df) : i # j => p[i] # p[j]
              /\ \A i \in 1..Len(df) : s[i] = df[p[i]]
        /\ \A i, j \in 1..Len(df) : i < j => s[i].date[2] <= s[j].date[2]}

\* _clean_data up to the sort, lines 178-191
coerced(df) ==
    dropna([i \in 1..Len(df) |->
               [date |-> to_datetime(df[i].date),
                open |-> to_numeric(df[i].open),
                high |-> to_numeric(df[i].high),
                low |-> to_numeric(df[i].low),
                close |-> to_numeric(df[i].close),
                volume |-> to_numeric(df[i].volume)]])

\* df['close'].rolling(window=5, min_periods=1).mean(), rounded to two
\* decimals, in hundredths
RECURSIVE SumClose(_, _, _)
SumClose(df, from, to) ==
    IF from > to THEN 0 ELSE df[from].close[2] + SumClose(df, from + 1, to)

ma5(df, i) ==
    LET from == Max(1, i - 4)
        n == i - from + 1
    IN  (200 * SumClose(df, from, i) + n) \div (2 * n)

\* _calculate_indicators: columns are added to every row, no row is added
\* or dropped; ma5 stands for the nine indicator columns.
_calculate_indicators(df) ==
    [i \in 1..Len(df) |->
        [date |-> df[i].date, open |-> df[i].open, high |-> df[i].high,
         low |-> df[i].low, close |-> df[i].close, volume |-> df[i].volume,
         ma5 |-> ma5(df, i)]]

\* raise DataFetchError(...) from e, line 166
DataFetchError(cause) == <<"raise", Exc("DataFetchError"), cause>>

\* The call ends at the except of lines 164-166.
FetchFails(cause) ==
    /\ bf_result' = DataFetchError(cause)
    /\ bf_pc' = "idle"
    /\ bf_df' = None

\* get_daily_data is called, lines 134-150: _fetch_raw_data runs and a
\* frame that is None or empty raises.
GetDailyDataFetches ==
    /\ bf_pc = "idle"
    /\ bf_calls < MaxFetchCalls
    /\ bf_calls' = bf_calls + 1
    /\ \E source \in SourceBehaviours :
          /\ bf_source' = source
          /\ bf_steps' = <<"fetch_raw">>
          /\ CASE source[1] = "fetch_raises" -> FetchFails(Exc("ConnectionError"))
               [] source[1] = "none" -> FetchFails(Exc("DataFetchError"))
               [] source[2] = <<>> -> FetchFails(Exc("DataFetchError"))
               [] OTHER -> /\ bf_df' = source[2]
                           /\ bf_pc' = "normalize"
                           /\ bf_result' = <<"pending">>
    /\ UNCHANGED nonBaseFetcherVars

\* Line 153: df = self._normalize_data(raw_df, stock_code)
GetDailyDataNormalizes ==
    /\ bf_pc = "normalize"
    /\ bf_steps' = Append(bf_steps, "normalize")
    /\ IF bf_source[1] = "normalize_raises"
       THEN FetchFails(Exc("KeyError"))
       ELSE /\ bf_df' = _normalize_data(bf_df)
            /\ bf_pc' = "clean"
            /\ UNCHANGED bf_result
    /\ UNCHANGED <<bf_source, bf_calls>>
    /\ UNCHANGED nonBaseFetcherVars

\* Line 156: df = self._clean_data(df), lines 178-196
GetDailyDataCleans ==
    /\ bf_pc = "clean"
    /\ bf_steps' = Append(bf_steps, "clean")
    /\ IF \E i \in 1..Len(bf_df) : ~parses(bf_df[i].date)
       THEN FetchFails(Exc("ValueError"))
       ELSE /\ \E sorted \in sort_values(coerced(bf_df)) : bf_df' = sorted
            /\ bf_pc' = "indicators"
            /\ UNCHANGED bf_result
    /\ UNCHANGED <<bf_source, bf_calls>>
    /\ UNCHANGED nonBaseFetcherVars

\* Lines 159-162: df = self._calculate_indicators(df); return df
GetDailyDataReturns ==
    /\ bf_pc = "indicators"
    /\ bf_steps' = Append(bf_steps, "compute_indicators")
    /\ bf_result' = <<"return", _calculate_indicators(bf_df)>>
    /\ bf_pc' = "idle"
    /\ bf_df' = None
    /\ UNCHANGED <<bf_source, bf_calls>>
    /\ UNCHANGED nonBaseFetcherVars

NextBaseFetcher ==
    \/ GetDailyDataFetches
    \/ GetDailyDataNormalizes
    \/ GetDailyDataCleans
    \/ GetDailyDataReturns

InitBaseFetcher == BaseFetcherIdle /\ BaseFetcherOthersIdle

SpecBaseFetcher == InitBaseFetcher /\ [][NextBaseFetcher]_vars

\* get_daily_data has returned a frame.
FrameReturned == bf_pc = "idle" /\ bf_result[1] = "return"

\* The steps in the order get_daily_data runs them
StepOrder == <<"fetch_raw", "normalize", "clean", "compute_indicators">>

\* C29: get_daily_data never returns an empty series: it runs fetch_raw,
\* normalize, clean and compute_indicators in this order, and a call in
\* which a step raised or yielded nothing has ended with DataFetchError
\* wrapping the cause.
C29_NeverReturnsEmpty ==
    /\ bf_steps = SubSeq(StepOrder, 1, Len(bf_steps))
    /\ FrameReturned => /\ bf_steps = StepOrder
                   /\ bf_result[2] # <<>>
    /\ (bf_pc = "idle" /\ bf_steps # <<>> /\ bf_steps # StepOrder)
          => /\ bf_result[1] = "raise"
             /\ bf_result[2] = Exc("DataFetchError")
             /\ bf_result[3][1] = "Exception"

\* C30: every bar of a frame get_daily_data returned has low <= min(open,
\* close) <= max(open, close) <= high and volume >= 0; the frame is
\* sorted ascending by date and no close or volume is null.
C30_ReturnedBarsValid ==
    FrameReturned
        => LET df == bf_result[2]
           IN  /\ \A i \in 1..Len(df) :
                     /\ df[i].close # NaN
                     /\ df[i].volume # NaN
                     /\ df[i].low[2] <= Min(df[i].open[2], df[i].close[2])
                     /\ Max(df[i].open[2], df[i].close[2]) <= df[i].high[2]
                     /\ df[i].volume[2] >= 0
               /\ \A i, j \in 1..Len(df) : i < j => df[i].date[2] <= df[j].date[2]

(***************************************************************************)
(*          Decision engine: the ATR band, data-shape problems,            *)
(*          mild negatives, trend symmetry and the emitted signals         *)
(***************************************************************************)

\* C31: with Layers 1 and 2 passed, the ATR bonus is given exactly when
\* 1.0 < atr_pct < 3.0 for a six-digit symbol and 1.0 < atr_pct < 4.0
\* otherwise (atr_pct = atr / close * 100), and an atr_pct at or above that
\* maximum gives the ATR risk and no bonus.
C31_AtrBonusBand ==
    (Analyzed /\ BullAlignment /\ WithinBias) =>
        LET b == inp.df.latest
            max == IF SixDigits THEN 3 ELSE 4
        IN /\ ("atr_healthy" \in Tags(res[1].signal_reasons))
                <=> (b.close < b.atr * 100 /\ b.atr * 100 < max * b.close)
           /\ (b.atr * 100 >= max * b.close)
                => /\ "atr_too_high" \in Tags(res[1].risk_factors)
                   /\ "atr_healthy" \notin Tags(res[1].signal_reasons)

\* C32: on a null frame or a frame of fewer than 20 rows analyze returns
\* WAIT with a reason or a risk that explains why.
C32_DataShapeExplained ==
    (res # <<>> /\ (inp.df.isNone \/ inp.df.len < 20)) =>
        /\ res[1].buy_signal = "WAIT"
        /\ (res[1].signal_reasons # <<>> \/ res[1].risk_factors # <<>>)

\* C33: with Layers 1 and 2 passed and a news text holding one or two
\* negative keywords, none severe, the result carries the sentiment risk
\* in risk_factors, and its score and signal are those of the same call
\* made on the text with no negative keyword in it.
C33_MildNegativeIsRisk ==
    (Analyzed /\ BullAlignment /\ WithinBias /\ NewsSupplied(inp.news)
       /\ NegativesInNews # {} /\ ~VetoCondition)
    => /\ "sentiment_mild_negative" \in Tags(res[1].risk_factors)
       /\ \A n \in NewsContexts :
            (NewsSupplied(n)
               /\ KeywordsFound(negative_keywords, n.text) = <<>>
               /\ KeywordsFound(positive_keywords, n.text)
                    = KeywordsFound(positive_keywords, inp.news.text))
            => LET r == analyze(inp.df, inp.code, n)
               IN /\ res[1].signal_score = r.signal_score
                  /\ res[1].buy_signal = r.buy_signal

\* The classification with every strict ordering reversed.
MirrorStatus(status) ==
    CASE status = "STRONG_BULL" -> "STRONG_BEAR"
      [] status = "STRONG_BEAR" -> "STRONG_BULL"
      [] status = "BULL" -> "BEAR"
      [] status = "BEAR" -> "BULL"
      [] status = "WEAK_BULL" -> "WEAK_BEAR"
      [] status = "WEAK_BEAR" -> "WEAK_BULL"
      [] OTHER -> status

\* C36: for positive close, ma5, ma10 and ma20 the trend status of a bar is
\* the mirror of the status of the bar reflected about ma5 (every strict
\* ordering reversed, every gap kept), and close < ma5 < ma10 < ma20 with
\* (ma10 - ma5) > (ma20 - ma10) is STRONG_BEAR.
C36_TrendMirror ==
    LET b == inp.df.latest
        m == 2 * b.ma5
    IN (Analyzed /\ b.close > 0 /\ b.ma5 > 0 /\ b.ma10 > 0 /\ b.ma20 > 0
          /\ m - b.close > 0 /\ m - b.ma10 > 0 /\ m - b.ma20 > 0)
       => /\ res[1].trend_status
               = MirrorStatus(_analyze_trend_status(m - b.close, m - b.ma5,
                                                    m - b.ma10, m - b.ma20))
          /\ (b.close < b.ma5 /\ b.ma5 < b.ma10 /\ b.ma10 < b.ma20
                /\ (b.ma10 - b.ma5) > (b.ma20 - b.ma10))
               => res[1].trend_status = "STRONG_BEAR"

\* C40: analyze returns WAIT or STRONG_BUY only, and STRONG_BUY, with a
\* score of at least 70, exactly when the frame has at least 20 rows, Layers
\* 1 and 2 pass and the news does not veto.
C40_WaitOrStrongBuy ==
    res # <<>> =>
        /\ res[1].buy_signal \in {"WAIT", "STRONG_BUY"}
        /\ (res[1].buy_signal = "STRONG_BUY")
             <=> /\ ~inp.df.isNone /\ inp.df.len >= 20
                 /\ BullAlignment /\ WithinBias
                 /\ ~(NewsSupplied(inp.news) /\ VetoCondition)
        /\ (res[1].buy_signal = "STRONG_BUY") => res[1].signal_score >= 70

\* C40 witness: Layers 1 and 2 passed with no Layer-3 bonus and a
\* non-vetoing negative news text: the score is exactly 70 and the signal
\* is STRONG_BUY.
C40_Witness ==
    /\ Analyzed /\ BullAlignment /\ WithinBias
    /\ NewsSupplied(inp.news) /\ NegativesInNews # {} /\ ~VetoCondition
    /\ res[1].signal_score = 70
    /\ res[1].buy_signal = "STRONG_BUY"

(***************************************************************************)
(*        Circuit breaker: the invariants of the three states              *)
(***************************************************************************)

\* CircuitBreaker.__init__ stores its arguments unvalidated: the breakers
\* with failure_threshold >= 1 and any half_open_max_calls >= 0.
BreakerInitAny ==
    /\ failure_threshold \in 1..MaxThreshold
    /\ timeout \in 0..MaxTimeout
    /\ half_open_max_calls \in 0..MaxHalfOpen
    /\ state = "CLOSED"
    /\ failure_count = 0
    /\ success_count = 0
    /\ last_failure_time = NoTime
    /\ last_success_time = NoTime
    /\ half_open_calls = 0
    /\ now = 0
    /\ pc = "idle"
    /\ outcome = "none"
    /\ invocations = 0
    /\ calls = 0
    /\ only_failures = TRUE
    /\ episode_successes = 0

InitBreakerAny == AnalyzerIdle /\ BreakerInitAny /\ LaterIdle

SpecBreakerAny == InitBreakerAny /\ [][NextBreaker]_vars

\* The state invariants of the breaker.
ClosedBelowThreshold == state = "CLOSED" => failure_count < failure_threshold

OpenHasFailureTime == state = "OPEN" => last_failure_time # NoTime

HalfOpenBelowMax == state = "HALF_OPEN" => half_open_calls < half_open_max_calls

\* C37 as stated: for a breaker with failure_threshold >= 1, after any
\* sequence of sequential calls and resets, CLOSED implies
\* failure_count < failure_threshold, OPEN implies last_failure_time is set
\* and HALF_OPEN implies half_open_calls < half_open_max_calls.
C37_StateInvariants ==
    failure_threshold >= 1 =>
        ClosedBelowThreshold /\ OpenHasFailureTime /\ HalfOpenBelowMax

\* C37, amended: the same for a breaker with failure_threshold >= 1 and
\* half_open_max_calls >= 1.
C37_StateInvariantsPositiveMax ==
    (failure_threshold >= 1 /\ half_open_max_calls >= 1) =>
        ClosedBelowThreshold /\ OpenHasFailureTime /\ HalfOpenBelowMax

\* C37 witness: a breaker that allows two trial calls, opened by failures,
\* is HALF_OPEN after one successful trial call.
C37_Witness ==
    /\ half_open_max_calls >= 2
    /\ state = "HALF_OPEN"
    /\ half_open_calls = 1
    /\ pc = "idle"
    /\ failure_count >= failure_threshold
    /\ last_failure_time # NoTime

(***************************************************************************)
(*      Cache manager: size eviction, the counters and the two tiers       *)
(***************************************************************************)

\* CacheManager(max_cache_size=2): a cap that the files of two keys can
\* exceed (sizes 1 and 2) and can stay within.
CacheInitSmallCap == CacheInit /\ max_cache_size = 2

InitCacheSmallCap == CacheInitSmallCap /\ CacheOthersIdle

SpecCacheSmallCap == InitCacheSmallCap /\ [][NextCache]_vars

\* The step is a set(k, ...).
SetStep(k) == cache_ops' = cache_ops + 1 /\ last_op' = <<"set", k>>

\* The directory after the write of that set and before its
\* _cleanup_if_needed: the file of k holds the new entry, or, the write
\* having failed, is as before or truncated.
AfterWrites(k) ==
    LET cache_file == _get_cache_file(k)
    IN  IF written'[k] # Absent
        THEN {[cache_files EXCEPT ![cache_file] = File(written'[k], cache_now)]}
        ELSE {cache_files,
              [cache_files EXCEPT ![cache_file] = File(Corrupt, cache_now)]}

\* The files of before that are gone in after.
Removed(before, after) ==
    {n \in FileNames : before[n] # Absent /\ after[n] = Absent}

\* What _cleanup_if_needed may make of the directory `before`.
EvictedProperly(before, after, deletes) ==
    LET removed == Removed(before, after)
        size_before == total_size(before)
        size_after == total_size(after)
    IN  /\ \A n \in FileNames : after[n] \in {before[n], Absent}
        /\ deletes = Cardinality(removed)
        \* only when the total exceeds the cap
        /\ (removed # {}) <=> (size_before > max_cache_size)
        \* within the cap afterwards
        /\ size_after <= max_cache_size
        /\ removed # {} =>
              \* oldest first
              /\ \A d \in removed : \A n \in FileNames :
                    after[n] # Absent
                       => mtime_of(before[d]) <= mtime_of(before[n])
              \* until the total is below 80% of the cap, and no further
              /\ \/ 10 * size_after < 8 * max_cache_size
                 \/ \A n \in FileNames : after[n] = Absent
              /\ \/ Cardinality(removed) = 1
                 \/ \E d \in removed :
                       10 * (size_after + st_size(before[d]))
                          >= 8 * max_cache_size

GetStep(k) == cache_ops' = cache_ops + 1 /\ last_op' = <<"get", k>>

\* The get counted a hit / a miss.
CountedHit ==
    _stats'.hits = _stats.hits + 1 /\ _stats'.misses = _stats.misses

CountedMiss ==
    _stats'.misses = _stats.misses + 1 /\ _stats'.hits = _stats.hits

\* The get returned the value of a stored entry of k, which the memory tier
\* holds afterwards.
ReturnedStored(k) ==
    /\ _memory_cache'[k] # Absent
    /\ \/ _memory_cache'[k] = _memory_cache[k]
       \/ /\ cache_files[_get_cache_file(k)] # Absent
          /\ _memory_cache'[k] = content_of(cache_files[_get_cache_file(k)])
    /\ get_return' = value_of(_memory_cache'[k])

\* No operation but get and the construction of a manager touches the two
\* counters.
OnlyGetCounts ==
    (\A k \in Keys : ~GetStep(k)) /\ last_op' # <<"new">>
       => _stats'.hits = _stats.hits /\ _stats'.misses = _stats.misses

C39_MemoryImpliesFile ==
    \A k \in Keys :
        _memory_cache[k] # Absent => cache_files[_get_cache_file(k)] # Absent

(***************************************************************************)
(*               Stock code validator: StockCodeValidator                  *)
(***************************************************************************)

\* Longest run of digits in an argument
MaxDigits == 7

\* return code
Accepted(code) == <<"returns", code>>

\* raise InvalidStockCodeError(...)
InvalidStockCodeError == Exc("InvalidStockCodeError")

RECURSIVE lstrip(_)
lstrip(s) == IF s # <<>> /\ s[1] = " " THEN lstrip(Tail(s)) ELSE s

RECURSIVE rstrip(_)
rstrip(s) ==
    IF s # <<>> /\ s[Len(s)] = " " THEN rstrip(SubSeq(s, 1, Len(s) - 1)) ELSE s

\* str.strip(), for the whitespace of the arguments used: the space
strip(s) == rstrip(lstrip(s))

\* str.upper(), for the letters of the arguments used
upper(s) ==
    [i \in 1..Len(s) |->
        CASE s[i] = "h" -> "H"
          [] s[i] = "k" -> "K"
          [] s[i] = "s" -> "S"
          [] s[i] = "z" -> "Z"
          [] OTHER -> s[i]]

\* str.startswith(prefix)
startswith(s, prefix) ==
    Len(s) >= Len(prefix) /\ SubSeq(s, 1, Len(prefix)) = prefix

\* str.replace(old, ''): every occurrence, left to right, without overlap
RECURSIVE replace(_, _)
replace(s, old) ==
    IF Len(s) < Len(old) THEN s
    ELSE IF SubSeq(s, 1, Len(old)) = old
    THEN replace(SubSeq(s, Len(old) + 1, Len(s)), old)
    ELSE <<s[1]>> \o replace(Tail(s), old)

\* str.zfill(width), for a string without a sign
zfill(s, width) ==
    IF Len(s) >= width THEN s
    ELSE [i \in 1..(width - Len(s)) |-> "0"] \o s

\* \d+ over the whole string
AllDigits(s) == \A i \in 1..Len(s) : s[i] \in Digits

\* ^\d{6}$
A_STOCK_PATTERN(s) == Len(s) = 6 /\ AllDigits(s)

\* ^(?:(?:HK|hk)?\d{4,5})$
HK_STOCK_PATTERN(s) ==
    LET body == IF startswith(s, <<"H", "K">>) \/ startswith(s, <<"h", "k">>)
                THEN SubSeq(s, 3, Len(s))
                ELSE s
    IN  Len(body) \in 4..5 /\ AllDigits(body)

\* ^\d{5}\.HK$ with re.IGNORECASE
HK_STOCK_FULL_PATTERN(s) ==
    /\ Len(s) = 8
    /\ AllDigits(SubSeq(s, 1, 5))
    /\ upper(SubSeq(s, 6, 8)) = <<".", "H", "K">>

\* StockCodeValidator.validate_a_stock
validate_a_stock(code) ==
    LET stripped == strip(code)
        bare == replace(replace(replace(replace(stripped, <<".", "S", "H">>),
                                        <<".", "S", "Z">>),
                                <<".", "s", "h">>),
                        <<".", "s", "z">>)
    IN  IF stripped = <<>> THEN InvalidStockCodeError
        ELSE IF ~A_STOCK_PATTERN(bare) THEN InvalidStockCodeError
        ELSE Accepted(bare)

\* StockCodeValidator.validate_hk_stock
validate_hk_stock(code) ==
    LET upped == upper(strip(code))
        bare == replace(upped, <<"H", "K">>)
        padded == IF Len(bare) < 5 THEN zfill(bare, 5) ELSE bare
    IN  IF upped = <<>> THEN InvalidStockCodeError
        ELSE IF HK_STOCK_FULL_PATTERN(upped) THEN Accepted(upped)
        ELSE IF ~HK_STOCK_PATTERN(padded) THEN InvalidStockCodeError
        ELSE Accepted(padded \o <<".", "H", "K">>)

\* StockCodeValidator.validate
validate(code) ==
    LET stripped == strip(code)
    IN  IF Contains(upper(stripped), <<".", "H", "K">>)
           \/ startswith(upper(stripped), <<"H", "K">>)
        THEN validate_hk_stock(stripped)
        ELSE IF validate_a_stock(stripped) # InvalidStockCodeError
        THEN validate_a_stock(stripped)
        ELSE IF validate_hk_stock(stripped) # InvalidStockCodeError
        THEN validate_hk_stock(stripped)
        ELSE InvalidStockCodeError

(***************************************************************************)
(* The arguments validate is called with: a run of digits, with or without *)
(* an HK prefix, a suffix and surrounding spaces.                          *)
(***************************************************************************)

\* The digits the arguments are written with.
CodeDigits == {"0", "7"}

DigitRuns == UNION {[1..n -> CodeDigits] : n \in 0..MaxDigits}

CodePrefixes == {<<>>, <<"H", "K">>, <<"h", "k">>}

CodeSuffixes == {<<>>, <<".", "H", "K">>, <<".", "h", "k">>, <<".", "S", "H">>}

CodePads == {<<>>, <<" ">>}

CodeArguments ==
    {pad \o p \o d \o s \o pad :
        pad \in CodePads, p \in CodePrefixes, d \in DigitRuns, s \in CodeSuffixes}

ValidatorInit ==
    /\ vcode \in CodeArguments
    /\ vreturn = NotCalled
    /\ vagain = NotCalled

\* validate(vcode)
Validate ==
    /\ vreturn = NotCalled
    /\ vreturn' = validate(vcode)
    /\ UNCHANGED <<vcode, vagain>>
    /\ UNCHANGED nonValidatorVars

\* validate of the code the first call returned
ValidateAgain ==
    /\ vreturn \notin {NotCalled, InvalidStockCodeError}
    /\ vagain = NotCalled
    /\ vagain' = validate(vreturn[2])
    /\ UNCHANGED <<vcode, vreturn>>
    /\ UNCHANGED nonValidatorVars

NextValidator ==
    \/ Validate
    \/ ValidateAgain

InitValidator == ValidatorInit /\ ValidatorOthersIdle

SpecValidator == InitValidator /\ [][NextValidator]_vars

(***************************************************************************)
(*                      Properties of the validator                        *)
(***************************************************************************)

\* A 4- or 5-digit code, alone, after an HK prefix or before a .HK suffix
\* (in either case of the letters): the digits of it, or <<>> when the
\* argument is none of these.
HkDigitsOf(code) ==
    LET up == upper(code)
        body == IF startswith(up, <<"H", "K">>) THEN SubSeq(up, 3, Len(up))
                ELSE IF Len(up) >= 3 /\ SubSeq(up, Len(up) - 2, Len(up)) = <<".", "H", "K">>
                THEN SubSeq(up, 1, Len(up) - 3)
                ELSE up
    IN  IF Len(body) \in 4..5 /\ AllDigits(body) THEN body ELSE <<>>

\* C34: validate returns a six-digit code unchanged, returns the five-digit
\* code with .HK for a 4- or 5-digit code written alone, with an HK prefix
\* or with a .HK suffix, and raises InvalidStockCodeError for every other
\* argument, codes of three digits or fewer included; validating a returned
\* code again returns it unchanged.
C34_ValidateAcceptsExactly ==
    /\ (vreturn # NotCalled /\ vcode = strip(vcode)) =>
          vreturn = IF Len(vcode) = 6 /\ AllDigits(vcode)
                    THEN Accepted(vcode)
                    ELSE IF HkDigitsOf(vcode) # <<>>
                    THEN Accepted(zfill(HkDigitsOf(vcode), 5) \o <<".", "H", "K">>)
                    ELSE InvalidStockCodeError
    /\ vagain # NotCalled => vagain = vreturn

====
